---- MODULE Spec2Model ----
(***************************************************************************)
(* A model of python-fastimport: the command classes and their byte        *)
(* serializers (commands.py), the line based parser (parser.py), the path  *)
(* helpers (helpers.py), the filter processor                              *)
(* (processors/filter_processor.py) and the reference tracker              *)
(* (reftracker.py).                                                        *)
(*                                                                         *)
(* Bytes are sequences of one-character strings.  A Python value that may  *)
(* be None is a sequence of length at most one: None is <<>> and a value x *)
(* is <<x>>.  A Python dict is a function whose DOMAIN is its key set.     *)
(***************************************************************************)
EXTENDS Naturals, Integers, Sequences, FiniteSets, TLC

VARIABLES
    \* FilterProcessor attributes (filter_processor.py:46-68)
    includes, excludes, squash_empty_commits, new_root,
    blobs, squashed_commits, parents,
    command, keep, referenced_blobs,
    \* ImportProcessor._process: where its loop stands ("loop": about to pull
    \* the next command, "handled": a handler cycle has just run) and whether
    \* it still runs ("running") or how it stopped
    pc, status,
    \* the command as it was handed to _process, and what the handler cycle
    \* of that command wrote to outf
    cmd_in, wrote,
    \* the ids of the commits written to outf so far (kept for the proofs:
    \* the filter itself keeps no such record)
    emitted,
    \* the commands handed to _process so far and everything written to outf
    cmds, outf,
    \* RefTracker: last_ref, last_ids (ref -> id), heads (id -> set of refs)
    last_ref, last_ids, heads,
    \* the ImportParser reading a stream (parser.py:265-283), the finished
    \* flag of an ImportProcessor (processor.py:68) and the hooks and
    \* handlers _process has called so far, in order
    parser, finished, called,
    \* the commands the command iterator given to _process has still to
    \* yield, and the kinds of command the processor class overrides the
    \* handler of
    command_iter, handlers,
    \* InfoProcessor.blob_ref_counts (info_processor.py:72): mark -> number
    \* of references, for the marks referenced more than once
    blob_ref_counts

filterVars == <<includes, excludes, squash_empty_commits, new_root,
                blobs, squashed_commits, parents,
                command, keep, referenced_blobs, pc, status, cmd_in, wrote,
                emitted>>
histVars == <<cmds, outf>>
refVars == <<last_ref, last_ids, heads>>
drvVars == <<parser, finished, called, command_iter, handlers, blob_ref_counts>>
vars == <<filterVars, histVars, refVars, drvVars>>

-----------------------------------------------------------------------------
(* Python values *)

None == <<>>
Some(x) == <<x>>
Val(o) == o[1]

EmptyDict == [k \in {} |-> None]
DictPut(d, k, v) == [x \in (DOMAIN d) \cup {k} |-> IF x = k THEN v ELSE d[x]]
DictGet(d, k) == IF k \in DOMAIN d THEN d[k] ELSE None

StartsWith(s, p) == Len(s) >= Len(p) /\ SubSeq(s, 1, Len(p)) = p
EndsWith(s, p) == Len(s) >= Len(p) /\ SubSeq(s, Len(s) - Len(p) + 1, Len(s)) = p
DropFirst(s, n) == SubSeq(s, n + 1, Len(s))
InList(x, l) == \E i \in 1..Len(l) : l[i] = x

RECURSIVE Concat(_)
Concat(ss) == IF ss = <<>> THEN <<>> ELSE Head(ss) \o Concat(Tail(ss))

RECURSIVE Dec(_)
Dec(n) ==
    LET d == <<"0", "1", "2", "3", "4", "5", "6", "7", "8", "9">>[(n % 10) + 1]
    IN  IF n < 10 THEN <<d>> ELSE Dec(n \div 10) \o <<d>>

-----------------------------------------------------------------------------
(* helpers.py *)

RECURSIVE common_path_and_rest(_, _, _)
common_path_and_rest(l1, l2, common) ==
    IF Len(l1) < 1 THEN common
    ELSE IF Len(l2) < 1 THEN common
    ELSE IF l1[1] # l2[1] THEN common
    ELSE common_path_and_rest(Tail(l1), Tail(l2), common \o <<l1[1]>>)

common_path(path1, path2) == common_path_and_rest(path1, path2, <<>>)

RECURSIVE rstrip_slash(_)
rstrip_slash(s) ==
    IF s # <<>> /\ s[Len(s)] = "/" THEN rstrip_slash(SubSeq(s, 1, Len(s) - 1))
    ELSE s

\* posixpath.split(p)[0]
posix_dirname(p) ==
    LET slashes == {k \in 1..Len(p) : p[k] = "/"}
        i == IF slashes = {} THEN 0
             ELSE CHOOSE k \in slashes : \A j \in slashes : j <= k
        head == SubSeq(p, 1, i)
    IN  IF head # <<>> /\ (\E k \in 1..Len(head) : head[k] # "/")
        THEN rstrip_slash(head) ELSE head

get_dir_with_slash(path) ==
    IF path = <<>> \/ EndsWith(path, <<"/">>) THEN path
    ELSE LET dirname == posix_dirname(path)
         IN  IF dirname = <<>> THEN dirname ELSE dirname \o <<"/">>

RECURSIVE common_of(_, _)
common_of(common, paths) ==
    IF paths = <<>> THEN common
    ELSE common_of(common_path(common, Head(paths)), Tail(paths))

common_directory(paths) ==
    IF paths = <<>> THEN None
    ELSE IF Len(paths) = 1 THEN Some(get_dir_with_slash(paths[1]))
    ELSE Some(get_dir_with_slash(
             common_of(common_path(paths[1], paths[2]), DropFirst(paths, 2))))

\* an is_inside that puts a slash behind every directory, whether or not it
\* ends with one
slash_always_added(directory, fname) ==
    IF directory = fname THEN TRUE
    ELSE IF directory = <<>> THEN TRUE
    ELSE StartsWith(fname, directory \o <<"/">>)

is_inside(directory, fname) ==
    IF directory = fname THEN TRUE
    ELSE IF directory = <<>> THEN TRUE
    ELSE LET dir == IF ~EndsWith(directory, <<"/">>)
                    THEN directory \o <<"/">> ELSE directory
         IN  StartsWith(fname, dir)

is_inside_any(dir_list, fname) ==
    \E i \in 1..Len(dir_list) : is_inside(dir_list[i], fname)

-----------------------------------------------------------------------------
(* commands.py: the command classes *)

MarkId(mark, lineno) ==
    IF mark = None THEN <<"@">> \o Dec(lineno) ELSE <<":">> \o Val(mark)

BlobCommand(mark, data, lineno) ==
    [name |-> "blob", mark |-> mark, data |-> data, lineno |-> lineno,
     id |-> MarkId(mark, lineno)]

CheckpointCommand == [name |-> "checkpoint"]

CommitCommand(ref, mark, author, committer, message, from_, merges, file_iter, lineno, more_authors, properties) ==
    [name |-> "commit", ref |-> ref, mark |-> mark, author |-> author,
     committer |-> committer, message |-> message, from_ |-> from_,
     merges |-> merges, file_iter |-> file_iter,
     more_authors |-> more_authors, properties |-> properties,
     lineno |-> lineno, id |-> MarkId(mark, lineno)]

FeatureCommand(feature_name, value, lineno) ==
    [name |-> "feature", feature_name |-> feature_name, value |-> value,
     lineno |-> lineno]

ProgressCommand(message) == [name |-> "progress", message |-> message]

ResetCommand(ref, from_) == [name |-> "reset", ref |-> ref, from_ |-> from_]

TagCommand(id, from_, tagger, message) ==
    [name |-> "tag", id |-> id, from_ |-> from_, tagger |-> tagger,
     message |-> message]

FileModifyCommand(path, mode, dataref, data) ==
    [name |-> "filemodify", path |-> path, mode |-> mode,
     dataref |-> dataref, data |-> data]

FileDeleteCommand(path) == [name |-> "filedelete", path |-> path]

FileCopyCommand(src_path, dest_path) ==
    [name |-> "filecopy", src_path |-> src_path, dest_path |-> dest_path]

FileRenameCommand(old_path, new_path) ==
    [name |-> "filerename", old_path |-> old_path, new_path |-> new_path]

FileDeleteAllCommand == [name |-> "filedeleteall"]

NoteModifyCommand(from_, data) ==
    [name |-> "notemodify", from_ |-> from_, data |-> data]

\* what self.command and cmd_in hold before the first command
NoCommand == [name |-> "none"]

\* the modes of parser.py:602-619, in decimal
Mode644 == 33188
Mode755 == 33261
ModeDir == 16384
ModeLink == 40960
ModeSubmodule == 57344

\* stat.S_ISDIR(mode): (mode & 0o170000) == 0o040000
S_ISDIR(mode) == (mode \div 4096) % 16 = 4

-----------------------------------------------------------------------------
(* Bytes are sequences of one-character strings.  The literals of          *)
(* commands.py and parser.py:                                              *)

LF == "\n"
SP == " "
QUOTE == "\""
BACKSLASH == "\\"

B_blob == <<"b", "l", "o", "b">>
B_mark == <<"m", "a", "r", "k", " ", ":">>
B_data == <<"d", "a", "t", "a", " ">>
B_checkpoint == <<"c", "h", "e", "c", "k", "p", "o", "i", "n", "t">>
B_commit == <<"c", "o", "m", "m", "i", "t", " ">>
B_author == <<"a", "u", "t", "h", "o", "r", " ">>
B_committer == <<"c", "o", "m", "m", "i", "t", "t", "e", "r", " ">>
B_from == <<"f", "r", "o", "m", " ">>
B_merge == <<"m", "e", "r", "g", "e", " ">>
B_property == <<"p", "r", "o", "p", "e", "r", "t", "y", " ">>
B_feature == <<"f", "e", "a", "t", "u", "r", "e">>
B_feature_ == <<"f", "e", "a", "t", "u", "r", "e", " ">>
B_progress == <<"p", "r", "o", "g", "r", "e", "s", "s", " ">>
B_reset == <<"r", "e", "s", "e", "t", " ">>
B_tag == <<"t", "a", "g", " ">>
B_tagger == <<"t", "a", "g", "g", "e", "r", " ">>
B_done == <<"d", "o", "n", "e">>
B_inline == <<"i", "n", "l", "i", "n", "e">>
B_deleteall == <<"d", "e", "l", "e", "t", "e", "a", "l", "l">>
B_now == <<"n", "o", "w">>
B_M == <<"M", " ">>
B_D == <<"D", " ">>
B_R == <<"R", " ">>
B_C == <<"C", " ">>
B_N_inline == <<"N", " ", "i", "n", "l", "i", "n", "e", " ", ":">>
B_644 == <<"6", "4", "4">>
B_755 == <<"7", "5", "5">>
B_040000 == <<"0", "4", "0", "0", "0", "0">>
B_120000 == <<"1", "2", "0", "0", "0", "0">>
B_160000 == <<"1", "6", "0", "0", "0", "0">>
B_100644 == <<"1", "0", "0", "6", "4", "4">>
B_0100644 == <<"0", "1", "0", "0", "6", "4", "4">>
B_100755 == <<"1", "0", "0", "7", "5", "5">>
B_0100755 == <<"0", "1", "0", "0", "7", "5", "5">>
B_0040000 == <<"0", "0", "4", "0", "0", "0", "0">>
B_0120000 == <<"0", "1", "2", "0", "0", "0", "0">>
B_0160000 == <<"0", "1", "6", "0", "0", "0", "0">>

Contains(s, ch) == \E i \in 1..Len(s) : s[i] = ch
AllButLast(s) == SubSeq(s, 1, Len(s) - 1)

\* b' '.join(parts)
RECURSIVE JoinSP(_)
JoinSP(parts) ==
    IF Len(parts) = 1 THEN parts[1]
    ELSE parts[1] \o <<SP>> \o JoinSP(Tail(parts))

\* '%02d' % n
TwoDigits(n) == IF n < 10 THEN <<"0">> \o Dec(n) ELSE Dec(n)

\* '%d' % n
DecSigned(n) == IF n < 0 THEN <<"-">> \o Dec(0 - n) ELSE Dec(n)

\* '\ndata %d\n' % len(data) + data
data_section(data) == <<LF>> \o B_data \o Dec(Len(data)) \o <<LF>> \o data

-----------------------------------------------------------------------------
(* commands.py: formatting and __bytes__ *)

\* re.sub(b'\n', b'\\n', p): in the replacement template of re.sub the two
\* bytes backslash n stand for a newline, so each newline is replaced by a
\* newline
RECURSIVE escape_newlines(_)
escape_newlines(p) ==
    IF p = <<>> THEN <<>>
    ELSE (IF Head(p) = LF THEN <<LF>> ELSE <<Head(p)>>)
         \o escape_newlines(Tail(p))

\* p[0] == b'"' compares an int with bytes and is never true, so a path is
\* quoted for a newline, or for a space when quote_spaces is set
format_path(p, quote_spaces) ==
    IF Contains(p, LF)
    THEN <<QUOTE>> \o escape_newlines(p) \o <<QUOTE>>
    ELSE IF quote_spaces /\ Contains(p, SP)
    THEN <<QUOTE>> \o p \o <<QUOTE>>
    ELSE p

\* fields: <<name, email, secs-since-epoch, utc-offset-secs>>
format_who_when(fields) ==
    LET offset == IF fields[4] < 0 THEN 0 - fields[4] ELSE fields[4]
        offset_sign == IF fields[4] < 0 THEN <<"-">> ELSE <<"+">>
        offset_hours == offset \div 3600
        offset_minutes == (offset \div 60) - offset_hours * 60
        offset_str == offset_sign \o TwoDigits(offset_hours)
                      \o TwoDigits(offset_minutes)
        name == fields[1]
        sep == IF name = <<>> THEN <<>> ELSE <<SP>>
    IN  name \o sep \o <<"<">> \o fields[2] \o <<">", SP>>
        \o DecSigned(fields[3]) \o <<SP>> \o offset_str

format_property(name, value) ==
    B_property \o name
    \o (IF value # None
        THEN <<SP>> \o Dec(Len(Val(value))) \o <<SP>> \o Val(value)
        ELSE <<>>)

format_mode(mode) ==
    CASE mode \in {493, Mode755} -> B_755
      [] mode \in {420, Mode644} -> B_644
      [] mode = ModeDir -> B_040000
      [] mode = ModeLink -> B_120000
      [] mode = ModeSubmodule -> B_160000

FileModifyCommand_bytes(fc) ==
    LET inline == ~S_ISDIR(fc.mode) /\ fc.dataref = None
        dataref == IF S_ISDIR(fc.mode) THEN <<"-">>
                   ELSE IF fc.dataref = None THEN B_inline
                   ELSE Val(fc.dataref)
        datastr == IF inline THEN data_section(Val(fc.data)) ELSE <<>>
    IN  JoinSP(<<<<"M">>, format_mode(fc.mode), dataref,
                 format_path(fc.path, FALSE) \o datastr>>)

filecommand_bytes(fc) ==
    CASE fc.name = "filemodify" -> FileModifyCommand_bytes(fc)
      [] fc.name = "filedelete" ->
            JoinSP(<<<<"D">>, format_path(fc.path, FALSE)>>)
      [] fc.name = "filecopy" ->
            JoinSP(<<<<"C">>, format_path(fc.src_path, TRUE),
                     format_path(fc.dest_path, FALSE)>>)
      [] fc.name = "filerename" ->
            JoinSP(<<<<"R">>, format_path(fc.old_path, TRUE),
                     format_path(fc.new_path, FALSE)>>)
      [] fc.name = "filedeleteall" -> B_deleteall
      [] fc.name = "notemodify" ->
            B_N_inline \o fc.from_ \o data_section(fc.data)

mark_line(mark) == IF mark = None THEN <<>> ELSE <<LF>> \o B_mark \o Val(mark)

BlobCommand_bytes(c) ==
    B_blob \o mark_line(c.mark) \o <<LF>> \o B_data \o Dec(Len(c.data))
    \o <<LF>> \o c.data

\* the bytes of the model in their order
ByteOrder ==
    <<LF, SP, QUOTE, "+", "-", "/", "0", "1", "2", "3", "4", "5", "6", "7",
      "8", "9", ":", "<", "=", ">", "@", "E", "J", "M", BACKSLASH, "a", "b",
      "c", "d", "e", "f", "g", "h", "i", "j", "k", "l", "m", "n", "o", "p",
      "q", "r", "s", "t", "u", "v", "w", "x", "y", "z">>
Ord(ch) == CHOOSE n \in DOMAIN ByteOrder : ByteOrder[n] = ch

RECURSIVE BytesLess(_, _)
BytesLess(x, y) ==
    IF y = <<>> THEN FALSE
    ELSE IF x = <<>> THEN TRUE
    ELSE IF Head(x) = Head(y) THEN BytesLess(Tail(x), Tail(y))
    ELSE Ord(Head(x)) < Ord(Head(y))

\* sorted(names)
RECURSIVE sorted_names(_)
sorted_names(names) ==
    IF names = {} THEN <<>>
    ELSE LET first == CHOOSE x \in names :
                          \A y \in names \ {x} : BytesLess(x, y)
         IN  <<first>> \o sorted_names(names \ {first})

\* CommitCommand.to_string(include_file_contents=True); the commits of the
\* model always carry a message and a list of file commands
CommitCommand_bytes(c) ==
    LET author_section ==
            IF c.author = None THEN <<>>
            ELSE <<LF>> \o B_author \o format_who_when(Val(c.author))
                 \o Concat([i \in 1..Len(c.more_authors) |->
                       <<LF>> \o B_author \o format_who_when(c.more_authors[i])])
        committer == B_committer \o format_who_when(c.committer)
        msg_section == data_section(c.message)
        from_line == IF c.from_ = None THEN <<>>
                     ELSE <<LF>> \o B_from \o Val(c.from_)
        merge_lines ==
            IF c.merges = None THEN <<>>
            ELSE Concat([i \in 1..Len(Val(c.merges)) |->
                     <<LF>> \o B_merge \o Val(c.merges)[i]])
        names == sorted_names(DOMAIN c.properties)
        properties_section ==
            Concat([i \in 1..Len(names) |->
                <<LF>> \o format_property(names[i], c.properties[names[i]])])
        filecommands ==
            Concat([i \in 1..Len(c.file_iter) |->
                <<LF>> \o filecommand_bytes(c.file_iter[i])])
    IN  B_commit \o c.ref \o mark_line(c.mark) \o author_section \o <<LF>>
        \o committer \o msg_section \o from_line \o merge_lines
        \o properties_section \o filecommands

FeatureCommand_bytes(c) ==
    B_feature_ \o c.feature_name
    \o (IF c.value = None THEN <<>> ELSE <<"=">> \o Val(c.value))

ProgressCommand_bytes(c) == B_progress \o c.message

ResetCommand_bytes(c) ==
    B_reset \o c.ref
    \o (IF c.from_ = None THEN <<>>
        ELSE <<LF>> \o B_from \o Val(c.from_) \o <<LF>>)

TagCommand_bytes(c) ==
    B_tag \o c.id
    \o (IF c.from_ = None THEN <<>> ELSE <<LF>> \o B_from \o Val(c.from_))
    \o (IF c.tagger = None THEN <<>>
        ELSE <<LF>> \o B_tagger \o format_who_when(Val(c.tagger)))
    \o data_section(c.message)

\* bytes(cmd)
command_bytes(c) ==
    CASE c.name = "blob" -> BlobCommand_bytes(c)
      [] c.name = "checkpoint" -> B_checkpoint
      [] c.name = "commit" -> CommitCommand_bytes(c)
      [] c.name = "feature" -> FeatureCommand_bytes(c)
      [] c.name = "progress" -> ProgressCommand_bytes(c)
      [] c.name = "reset" -> ResetCommand_bytes(c)
      [] c.name = "tag" -> TagCommand_bytes(c)

\* what _print_command writes for a command
print_command(c) ==
    LET text == command_bytes(c)
    IN  IF EndsWith(text, <<LF>>) THEN text ELSE text \o <<LF>>

-----------------------------------------------------------------------------
(* parser.py: LineBasedParser.  A parser is a record of the bytes left in  *)
(* its input, lineno, the stack _buffer of pushed-back lines, and, for an  *)
(* ImportParser, date_parser and features.  A method is an operator from   *)
(* the parser to a record of the parser it leaves behind, the value it     *)
(* returns and the exception it raises (err), if any.                      *)

\* The last four fields are kept for the proofs, the parser has no such
\* attributes: the longest the buffer has been, whether every direct read
\* of the input found the buffer empty, the line last pushed back with the
\* lineno it was returned at, and whether every line popped from the buffer
\* was that line at that lineno.
LineBasedParser(input_stream) ==
    [input |-> input_stream, lineno |-> 0, buffer |-> <<>>,
     date_parser |-> None, features |-> EmptyDict,
     longest_buffer |-> 0, direct_on_empty |-> TRUE, pushed |-> None,
     popped_as_pushed |-> TRUE]

Ok(ps, v) == [ps |-> ps, val |-> v, err |-> None]
Raise(ps, e) == [ps |-> ps, val |-> None, err |-> Some(e)]

\* The element of a one-element set: The({f(x) : x \in {e}}) is f(e), a
\* local x = e followed by f(x)
The(S) == CHOOSE x \in S : TRUE

\* the position of the first ch in s, 0 without one
FirstIndex(s, ch) ==
    IF Contains(s, ch)
    THEN CHOOSE i \in 1..Len(s) : s[i] = ch /\ \A j \in 1..(i - 1) : s[j] # ch
    ELSE 0

Maximum(S) == CHOOSE x \in S : \A y \in S : y <= x
Count(s, ch) == Cardinality({i \in 1..Len(s) : s[i] = ch})

\* where sub first occurs in s, 0 if nowhere
FindSub(s, sub) ==
    LET at == {i \in 1..(Len(s) - Len(sub) + 1) :
                  SubSeq(s, i, i + Len(sub) - 1) = sub}
    IN  IF at = {} THEN 0 ELSE CHOOSE i \in at : \A j \in at : i <= j

\* s.split(sep, maxsplit); maxsplit < 0 splits everywhere
RECURSIVE Split(_, _, _)
Split(s, sep, maxsplit) ==
    LET i == FindSub(s, sep)
    IN  IF maxsplit = 0 \/ i = 0 THEN <<s>>
        ELSE <<SubSeq(s, 1, i - 1)>>
             \o Split(DropFirst(s, i + Len(sep) - 1), sep, maxsplit - 1)

RECURSIVE lstrip(_)
lstrip(s) == IF s # <<>> /\ s[1] \in {SP, LF} THEN lstrip(Tail(s)) ELSE s
RECURSIVE rstrip(_)
rstrip(s) ==
    IF s # <<>> /\ s[Len(s)] \in {SP, LF} THEN rstrip(AllButLast(s)) ELSE s

Digits == <<"0", "1", "2", "3", "4", "5", "6", "7", "8", "9">>
IsDigits(s) == s # <<>> /\ \A i \in 1..Len(s) : Contains(Digits, s[i])
\* what int() and float() take in the model: digits with an optional sign
IsInt(s) ==
    IF s # <<>> /\ s[1] \in {"+", "-"} THEN IsDigits(Tail(s)) ELSE IsDigits(s)
RECURSIVE DigitsValue(_)
DigitsValue(s) ==
    IF s = <<>> THEN 0
    ELSE 10 * DigitsValue(AllButLast(s)) + (FirstIndex(Digits, s[Len(s)]) - 1)
ToInt(s) ==
    IF s[1] = "-" THEN 0 - DigitsValue(Tail(s))
    ELSE IF s[1] = "+" THEN DigitsValue(Tail(s))
    ELSE DigitsValue(s)

\* input.readline(): <<the line with its newline, the bytes left>>
input_readline(inp) ==
    LET i == FirstIndex(inp, LF)
    IN  IF i = 0 THEN <<inp, <<>>>>
        ELSE <<SubSeq(inp, 1, i), DropFirst(inp, i)>>

readline(ps) ==
    IF ps.buffer # <<>>
    THEN Ok([ps EXCEPT !.lineno = @ + 1, !.buffer = AllButLast(@),
                       !.popped_as_pushed =
                           @ /\ ps.pushed = Some(<<ps.buffer[Len(ps.buffer)],
                                                   ps.lineno + 1>>),
                       !.pushed = None],
            ps.buffer[Len(ps.buffer)])
    ELSE The({Ok([ps EXCEPT !.lineno = @ + 1, !.input = lr[2]], lr[1]) :
                 lr \in {input_readline(ps.input)}})

\* line[:-1] drops the last byte of the line, newline or not
next_line(ps) ==
    The({IF r.val # <<>> THEN Ok(r.ps, Some(AllButLast(r.val)))
         ELSE Ok(r.ps, None) :
            r \in {readline(ps)}})

\* a push_line that appends the line twice
push_line_twice(ps, line) ==
    [ps EXCEPT !.lineno = @ - 1,
               !.buffer = Append(Append(@, line \o <<LF>>), line \o <<LF>>),
               !.longest_buffer = IF Len(ps.buffer) + 2 > @
                                  THEN Len(ps.buffer) + 2 ELSE @,
               !.pushed = Some(<<line \o <<LF>>, ps.lineno>>)]

push_line(ps, line) ==
    [ps EXCEPT !.lineno = @ - 1, !.buffer = Append(@, line \o <<LF>>),
               !.longest_buffer = IF Len(ps.buffer) + 1 > @
                                  THEN Len(ps.buffer) + 1 ELSE @,
               !.pushed = Some(<<line \o <<LF>>, ps.lineno>>)]

\* input.read(count) with a negative count reads to the end
read_bytes(ps, count) ==
    LET n == IF count < 0 \/ count > Len(ps.input) THEN Len(ps.input)
             ELSE count
        p1 == [ps EXCEPT !.input = DropFirst(@, n),
                         !.lineno = @ + Count(SubSeq(ps.input, 1, n), LF),
                         !.direct_on_empty = @ /\ ps.buffer = <<>>]
    IN  IF n # count THEN Raise(p1, "MissingBytes")
        ELSE Ok(p1, SubSeq(ps.input, 1, n))

\* the loop of read_until: at the end of the input readline returns b''
\* for ever, which is never the terminator
RECURSIVE read_until_from(_, _, _)
read_until_from(inp, term, lines) ==
    The({IF lr[1] = term THEN <<"found", lines, lr[2]>>
         ELSE IF inp = <<>> THEN <<"hang", lines, inp>>
         ELSE read_until_from(lr[2], term, lines \o lr[1]) :
            lr \in {input_readline(inp)}})

read_until(ps, terminator) ==
    The({IF r[1] = "hang"
         THEN Raise([ps EXCEPT !.input = r[3],
                               !.direct_on_empty = @ /\ ps.buffer = <<>>],
                    "hang")
         ELSE Ok([ps EXCEPT !.input = r[3],
                            !.direct_on_empty = @ /\ ps.buffer = <<>>],
                 r[2]) :
            r \in {read_until_from(ps.input, terminator \o <<LF>>, <<>>)}})

-----------------------------------------------------------------------------
(* dates.py *)

\* time.time(): some moment of the run
TimeNow == 999

parse_tz(tz) ==
    IF tz = <<>> \/ tz[1] \notin {"+", "-"} THEN Raise(<<>>, "ValueError")
    ELSE LET hours == SubSeq(tz, 2, Len(tz) - 2)
             minutes == SubSeq(tz, IF Len(tz) < 2 THEN 1 ELSE Len(tz) - 1,
                               Len(tz))
         IN  IF ~IsInt(hours) \/ ~IsInt(minutes) THEN Raise(<<>>, "ValueError")
             ELSE Ok(<<>>, (IF tz[1] = "+" THEN 1 ELSE 0 - 1) * 60
                           * (60 * ToInt(hours) + ToInt(minutes)))

parse_raw(s) ==
    The({IF Len(parts) # 2 \/ ~IsInt(parts[1]) THEN Raise(<<>>, "ValueError")
         ELSE The({IF timezone.err # None THEN Raise(<<>>, "InvalidTimezone")
                   ELSE Ok(<<>>, <<ToInt(parts[1]), timezone.val>>) :
                      timezone \in {parse_tz(parts[2])}}) :
            parts \in {Split(s, <<SP>>, 1)}})

parse_rfc2822(s) == Raise(<<>>, "NotImplementedError")

parse_now(s) == Ok(<<>>, <<TimeNow, 0>>)

\* DATE_PARSERS_BY_NAME[date_format](datestr)
date_parse(date_format, datestr) ==
    CASE date_format = "raw" -> parse_raw(datestr)
      [] date_format = "now" -> parse_now(datestr)
      [] date_format = "rfc2822" -> parse_rfc2822(datestr)

-----------------------------------------------------------------------------
(* parser.py: ImportParser *)

\* what a single-character escape stands for; the bell, backspace and
\* vertical tab by their names
escaped_char(ch) ==
    CASE ch = "n" -> LF
      [] ch = "t" -> "\t"
      [] ch = "r" -> "\r"
      [] ch = "f" -> "\f"
      [] ch = "a" -> "BEL"
      [] ch = "b" -> "BS"
      [] ch = "v" -> "VT"
      [] OTHER -> ch

\* ESCAPE_SEQUENCE_BYTES_RE.sub(decode_match, s).  The byte strings of the
\* model hold no backslash followed by U, u, x, N or a digit, so the
\* single-character escapes are the ones that match.
RECURSIVE unquote_c_string(_)
unquote_c_string(s) ==
    IF s = <<>> THEN <<>>
    ELSE IF Len(s) >= 2 /\ s[1] = BACKSLASH
            /\ s[2] \in {BACKSLASH, "'", QUOTE, "a", "b", "f", "n", "r", "t",
                         "v"}
    THEN <<escaped_char(s[2])>> \o unquote_c_string(DropFirst(s, 2))
    ELSE <<s[1]>> \o unquote_c_string(Tail(s))

\* ImportParser._path
parse_path(ps, s) ==
    IF StartsWith(s, <<QUOTE>>)
    THEN IF ~EndsWith(s, <<QUOTE>>) THEN Raise(ps, "BadFormat")
         ELSE Ok(ps, unquote_c_string(SubSeq(s, 2, Len(s) - 1)))
    ELSE Ok(ps, s)

\* ImportParser._path_pair
parse_path_pair(ps, s) ==
    The({IF Len(parts) # 2 THEN Raise(ps, "BadFormat")
         ELSE LET starts == StartsWith(parts[2], <<QUOTE>>)
                  ends == EndsWith(parts[2], <<QUOTE>>)
              IN  IF starts /\ ends
                  THEN Ok(ps, <<unquote_c_string(parts[1]),
                                unquote_c_string(
                                    SubSeq(parts[2], 2, Len(parts[2]) - 1))>>)
                  ELSE IF starts \/ ends THEN Raise(ps, "BadFormat")
                  ELSE Ok(ps, <<unquote_c_string(parts[1]),
                                unquote_c_string(parts[2])>>) :
            parts \in {IF StartsWith(s, <<QUOTE>>)
                       THEN Split(Tail(s), <<QUOTE, SP>>, 1)
                       ELSE Split(s, <<SP>>, 1)}})

\* ImportParser._mode
parse_mode(ps, s) ==
    IF s \in {B_644, B_100644, B_0100644} THEN Ok(ps, Mode644)
    ELSE IF s \in {B_755, B_100755, B_0100755} THEN Ok(ps, Mode755)
    ELSE IF s \in {B_040000, B_0040000} THEN Ok(ps, ModeDir)
    ELSE IF s \in {B_120000, B_0120000} THEN Ok(ps, ModeLink)
    ELSE IF s \in {B_160000, B_0160000} THEN Ok(ps, ModeSubmodule)
    ELSE Raise(ps, "BadFormat")

\* the value is <<name, value>>, value an Optional
name_value(ps, s) ==
    The({IF Len(parts) = 1 THEN Ok(ps, <<parts[1], None>>)
         ELSE IF ~IsInt(parts[2]) THEN Raise(ps, "ValueError")
         ELSE IF Len(parts) = 2 THEN Raise(ps, "IndexError")
         ELSE IF ToInt(parts[2]) - Len(parts[3]) <= 0
         THEN Ok(ps, <<parts[1], Some(parts[3])>>)
         ELSE The({IF rb.err # None THEN rb
                   ELSE Ok(rb.ps,
                           <<parts[1],
                             Some(parts[3] \o <<LF>>
                                  \o SubSeq(rb.val, 1, Len(rb.val) - 1))>>) :
                      rb \in {read_bytes(
                                 ps, ToInt(parts[2]) - Len(parts[3]))}}) :
            parts \in {Split(s, <<SP>>, 2)}})

\* _who_when, lines 522-530: the date format, detected at the first date
date_format_of(ps, datestr) ==
    IF ps.date_parser # None THEN Val(ps.date_parser)
    ELSE IF Len(Split(datestr, <<SP>>, 0 - 1)) = 2 THEN "raw"
    ELSE IF datestr = B_now THEN "now"
    ELSE "rfc2822"

\* _who_when, lines 552-554
strip_one_space(name) ==
    IF EndsWith(name, <<SP>>) THEN AllButLast(name) ELSE name

\* the value is the Authorship <<name, email, timestamp, timezone>>; strict
\* is left at its default, True, and there is no user_mapper
who_when(ps, s, accept_just_who) ==
    LET lt == FirstIndex(s, "<")
        \* _WHO_AND_WHEN_RE: the last '> ' after the '<' with a byte after it
        ends == {k \in (lt + 1)..(Len(s) - 2) : s[k] = ">" /\ s[k + 1] = SP}
        \* _WHO_RE: the last '>' after the '<'
        closes == {k \in (lt + 1)..Len(s) : s[k] = ">"}
    IN  IF lt # 0 /\ ends # {}
        THEN The({
             The({IF when.err # None
                  THEN Raise([ps EXCEPT !.date_parser =
                                 Some(date_format_of(ps, datestr))],
                             Val(when.err))
                  ELSE Ok([ps EXCEPT !.date_parser =
                              Some(date_format_of(ps, datestr))],
                          <<strip_one_space(rstrip(SubSeq(s, 1, lt - 1))),
                            SubSeq(s, lt + 1, Maximum(ends) - 1),
                            when.val[1], when.val[2]>>) :
                     when \in {date_parse(date_format_of(ps, datestr),
                                          datestr)}}) :
                datestr \in {lstrip(DropFirst(s, Maximum(ends) + 1))}})
        ELSE IF accept_just_who /\ lt # 0 /\ closes # {}
        THEN Ok(ps, <<strip_one_space(SubSeq(s, 1, lt - 1)),
                      SubSeq(s, lt + 1, Maximum(closes) - 1),
                      parse_now(B_now).val[1], parse_now(B_now).val[2]>>)
        ELSE Raise(ps, "BadFormat")

\* line.startswith on the None that next_line returns at the end of the
\* input is an AttributeError
get_mark_if_any(ps) ==
    The({IF r.val = None THEN Raise(r.ps, "AttributeError")
         ELSE IF StartsWith(Val(r.val), B_mark)
         THEN Ok(r.ps, Some(DropFirst(Val(r.val), Len(B_mark))))
         ELSE Ok(push_line(r.ps, Val(r.val)), None) :
            r \in {next_line(ps)}})

get_from(ps, required_for) ==
    The({IF r.val = None THEN Ok(r.ps, None)
         ELSE IF StartsWith(Val(r.val), B_from)
         THEN Ok(r.ps, Some(DropFirst(Val(r.val), Len(B_from))))
         ELSE IF required_for # None THEN Raise(r.ps, "MissingSection")
         ELSE Ok(push_line(r.ps, Val(r.val)), None) :
            r \in {next_line(ps)}})

get_merge(ps) ==
    The({IF r.val = None THEN Ok(r.ps, None)
         ELSE IF StartsWith(Val(r.val), B_merge)
         THEN Ok(r.ps, Some(DropFirst(Val(r.val), Len(B_merge))))
         ELSE Ok(push_line(r.ps, Val(r.val)), None) :
            r \in {next_line(ps)}})

get_property(ps) ==
    The({IF r.val = None THEN Ok(r.ps, None)
         ELSE IF StartsWith(Val(r.val), B_property)
         THEN The({IF nv.err # None THEN nv ELSE Ok(nv.ps, Some(nv.val)) :
                      nv \in {name_value(
                                 r.ps,
                                 DropFirst(Val(r.val), Len(B_property)))}})
         ELSE Ok(push_line(r.ps, Val(r.val)), None) :
            r \in {next_line(ps)}})

\* section with its space; the value is an Optional Authorship
get_user_info(ps, section, required, accept_just_who) ==
    The({IF r.val = None THEN Raise(r.ps, "AttributeError")
         ELSE IF StartsWith(Val(r.val), section)
         THEN The({IF w.err # None THEN w ELSE Ok(w.ps, Some(w.val)) :
                      w \in {who_when(r.ps,
                                      DropFirst(Val(r.val), Len(section)),
                                      accept_just_who)}})
         ELSE IF required THEN Raise(r.ps, "MissingSection")
         ELSE Ok(push_line(r.ps, Val(r.val)), None) :
            r \in {next_line(ps)}})

\* _get_data, lines 505-509: the optional LF after the data; rb is what
\* read_bytes returned
optional_lf(rb) ==
    The({IF Len(lr[1]) > 1 \/ lr[1] # <<LF>>
         THEN Ok(push_line([rb.ps EXCEPT
                               !.input = lr[2], !.lineno = @ + 1,
                               !.direct_on_empty = @ /\ rb.ps.buffer = <<>>],
                           AllButLast(lr[1])),
                 rb.val)
         ELSE Ok([rb.ps EXCEPT !.input = lr[2], !.lineno = @ + 1,
                               !.direct_on_empty = @ /\ rb.ps.buffer = <<>>],
                 rb.val) :
            lr \in {input_readline(rb.ps.input)}})

get_data(ps) ==
    The({IF r.val = None THEN Raise(r.ps, "AttributeError")
         ELSE IF ~StartsWith(Val(r.val), B_data)
         THEN Raise(r.ps, "MissingSection")
         ELSE IF StartsWith(DropFirst(Val(r.val), Len(B_data)), <<"<", "<">>)
         THEN read_until(r.ps, DropFirst(Val(r.val), Len(B_data) + 2))
         ELSE IF ~IsInt(DropFirst(Val(r.val), Len(B_data)))
         THEN Raise(r.ps, "ValueError")
         ELSE The({IF rb.err # None THEN rb ELSE optional_lf(rb) :
                      rb \in {read_bytes(
                                 r.ps,
                                 ToInt(DropFirst(Val(r.val), Len(B_data))))}}) :
            r \in {next_line(ps)}})

\* check_path raises ValueError for an empty path and one starting with '/'
check_path(p) == p # <<>> /\ p[1] # "/"

\* _parse_file_modify, lines 414-421; p and m are the path and mode parsed
file_modify_of(ps, p, m, dataref) ==
    IF dataref = B_inline
    THEN The({IF d.err # None THEN d
              ELSE IF ~check_path(p) THEN Raise(d.ps, "ValueError")
              ELSE Ok(d.ps, FileModifyCommand(p, m, None, Some(d.val))) :
                 d \in {get_data(ps)}})
    ELSE IF ~check_path(p) THEN Raise(ps, "ValueError")
    ELSE Ok(ps, FileModifyCommand(p, m, Some(dataref), None))

parse_file_modify(ps, info) ==
    The({IF Len(params) < 3 THEN Raise(ps, "IndexError")
         ELSE The({IF p.err # None THEN p
                   ELSE The({IF m.err # None THEN m
                             ELSE file_modify_of(ps, p.val, m.val, params[2]) :
                                m \in {parse_mode(ps, params[1])}}) :
                      p \in {parse_path(ps, params[3])}}) :
            params \in {Split(info, <<SP>>, 2)}})

\* list(self.iter_file_commands()), result the commands collected so far
RECURSIVE iter_file_commands(_, _)
iter_file_commands(ps, result) ==
    The({IF r.val = None THEN Ok(r.ps, result)
         ELSE IF Val(r.val) = <<>> \/ StartsWith(Val(r.val), <<"#">>)
         THEN iter_file_commands(r.ps, result)
         ELSE IF StartsWith(Val(r.val), B_M)
         THEN The({IF fm.err # None THEN fm
                   ELSE iter_file_commands(fm.ps, Append(result, fm.val)) :
                      fm \in {parse_file_modify(r.ps,
                                                DropFirst(Val(r.val), 2))}})
         ELSE IF StartsWith(Val(r.val), B_D)
         THEN The({IF p.err # None THEN p
                   ELSE IF ~check_path(p.val) THEN Raise(r.ps, "ValueError")
                   ELSE iter_file_commands(
                            r.ps, Append(result, FileDeleteCommand(p.val))) :
                      p \in {parse_path(r.ps, DropFirst(Val(r.val), 2))}})
         ELSE IF StartsWith(Val(r.val), B_R) \/ StartsWith(Val(r.val), B_C)
         THEN The({IF pp.err # None THEN pp
                   ELSE IF ~check_path(pp.val[1]) \/ ~check_path(pp.val[2])
                   THEN Raise(r.ps, "ValueError")
                   ELSE iter_file_commands(
                            r.ps,
                            Append(result,
                                   IF StartsWith(Val(r.val), B_R)
                                   THEN FileRenameCommand(pp.val[1], pp.val[2])
                                   ELSE FileCopyCommand(pp.val[1],
                                                        pp.val[2]))) :
                      pp \in {parse_path_pair(r.ps,
                                              DropFirst(Val(r.val), 2))}})
         ELSE IF StartsWith(Val(r.val), B_deleteall)
         THEN iter_file_commands(r.ps, Append(result, FileDeleteAllCommand))
         ELSE Ok(push_line(r.ps, Val(r.val)), result) :
            r \in {next_line(ps)}})

parse_blob(ps) ==
    The({IF mark.err # None THEN mark ELSE
    The({IF data.err # None THEN data
         ELSE Ok(data.ps, BlobCommand(mark.val, data.val, ps.lineno)) :
            data \in {get_data(mark.ps)}}) :
            mark \in {get_mark_if_any(ps)}})

\* the loop collecting more_authors
RECURSIVE get_more_authors(_, _)
get_more_authors(ps, more_authors) ==
    The({IF another_author.err # None THEN another_author
         ELSE IF another_author.val = None
         THEN Ok(another_author.ps, more_authors)
         ELSE get_more_authors(
                  another_author.ps,
                  Append(more_authors, Val(another_author.val))) :
            another_author \in {get_user_info(ps, B_author, FALSE, FALSE)}})

\* the loop collecting merges
RECURSIVE get_merges(_, _)
get_merges(ps, merges) ==
    The({IF merge.val = None THEN Ok(merge.ps, merges)
         ELSE get_merges(merge.ps,
                         merges \o Split(Val(merge.val), <<SP>>, 0 - 1)) :
            merge \in {get_merge(ps)}})

\* the loop collecting properties
RECURSIVE get_properties(_, _)
get_properties(ps, properties) ==
    The({IF nv.err # None THEN nv
         ELSE IF nv.val = None THEN Ok(nv.ps, properties)
         ELSE get_properties(
                  nv.ps, DictPut(properties, Val(nv.val)[1], Val(nv.val)[2])) :
            nv \in {get_property(ps)}})

\* each section is read from the parser the section before it left
parse_commit(ps, ref) ==
    The({IF mark.err # None THEN mark ELSE
    The({IF author.err # None THEN author ELSE
    The({IF more_authors.err # None THEN more_authors ELSE
    The({IF committer.err # None THEN committer ELSE
    The({IF message.err # None THEN message ELSE
    The({
    The({
    The({IF properties.err # None THEN properties ELSE
    The({IF files.err # None THEN files
         ELSE Ok(files.ps,
                 CommitCommand(ref, mark.val, author.val, Val(committer.val),
                               message.val, from_.val, Some(merges.val),
                               files.val, ps.lineno, more_authors.val,
                               properties.val)) :
            files \in {iter_file_commands(properties.ps, <<>>)}}) :
            properties \in {get_properties(merges.ps, EmptyDict)}}) :
            merges \in {get_merges(from_.ps, <<>>)}}) :
            from_ \in {get_from(message.ps, None)}}) :
            message \in {get_data(committer.ps)}}) :
            committer \in {get_user_info(more_authors.ps, B_committer, TRUE,
                                         FALSE)}}) :
            more_authors \in {get_more_authors(author.ps, <<>>)}}) :
            author \in {get_user_info(mark.ps, B_author, FALSE, FALSE)}}) :
            mark \in {get_mark_if_any(ps)}})

parse_feature(ps, info) ==
    The({IF Len(parts) = 1
         THEN Ok([ps EXCEPT !.features = DictPut(@, parts[1], None)],
                 FeatureCommand(parts[1], None, ps.lineno))
         ELSE The({IF value.err # None THEN value
                   ELSE Ok([ps EXCEPT !.features =
                               DictPut(@, parts[1], Some(value.val))],
                           FeatureCommand(parts[1], Some(value.val),
                                          ps.lineno)) :
                      value \in {parse_path(ps, parts[2])}}) :
            parts \in {Split(info, <<"=">>, 1)}})

parse_reset(ps, ref) ==
    The({Ok(from_.ps, ResetCommand(ref, from_.val)) :
            from_ \in {get_from(ps, None)}})

parse_tag(ps, tag_name) ==
    The({IF from_.err # None THEN from_ ELSE
    The({IF tagger.err # None THEN tagger ELSE
    The({IF message.err # None THEN message
         ELSE Ok(message.ps,
                 TagCommand(tag_name, from_.val, tagger.val, message.val)) :
            message \in {get_data(tagger.ps)}}) :
            tagger \in {get_user_info(from_.ps, B_tagger, TRUE, TRUE)}}) :
            from_ \in {get_from(ps, Some(B_tag))}})

\* what iter_commands yields for the command parsed
yield(parsed) ==
    IF parsed.err # None THEN parsed ELSE Ok(parsed.ps, Some(parsed.val))

\* the command that starts with line, lines 299-316; None ends the iteration
command_at(ps, line) ==
    IF StartsWith(line, B_commit)
    THEN The({yield(c) : c \in {parse_commit(ps, DropFirst(line, Len(B_commit)))}})
    ELSE IF StartsWith(line, B_blob)
    THEN The({yield(c) : c \in {parse_blob(ps)}})
    ELSE IF StartsWith(line, B_done) THEN Ok(ps, None)
    ELSE IF StartsWith(line, B_progress)
    THEN Ok(ps, Some(ProgressCommand(DropFirst(line, Len(B_progress)))))
    ELSE IF StartsWith(line, B_reset)
    THEN The({yield(c) : c \in {parse_reset(ps, DropFirst(line, Len(B_reset)))}})
    ELSE IF StartsWith(line, B_tag)
    THEN The({yield(c) : c \in {parse_tag(ps, DropFirst(line, Len(B_tag)))}})
    ELSE IF StartsWith(line, B_checkpoint) THEN Ok(ps, Some(CheckpointCommand))
    ELSE IF StartsWith(line, B_feature)
    THEN The({yield(c) :
                 c \in {parse_feature(ps, DropFirst(line, Len(B_feature_)))}})
    ELSE Raise(ps, "InvalidCommand")

\* one step of the generator iter_commands: the value is the command it
\* yields, or None when the iteration ends
RECURSIVE iter_commands(_)
\* a parser for which the end of the input always ends the iteration
eof_always_ends(ps) ==
    The({IF r.val = None THEN Ok(r.ps, None)
         ELSE IF Val(r.val) = <<>> \/ StartsWith(Val(r.val), <<"#">>)
         THEN iter_commands(r.ps)
         ELSE command_at(r.ps, Val(r.val)) :
            r \in {next_line(ps)}})

iter_commands(ps) ==
    The({IF r.val = None
         THEN IF B_done \in DOMAIN r.ps.features
              THEN Raise(r.ps, "PrematureEndOfStream")
              ELSE Ok(r.ps, None)
         ELSE IF Val(r.val) = <<>> \/ StartsWith(Val(r.val), <<"#">>)
         THEN iter_commands(r.ps)
         ELSE command_at(r.ps, Val(r.val)) :
            r \in {next_line(ps)}})

-----------------------------------------------------------------------------
(* processors/filter_processor.py *)

Truthy(opt) == opt # None /\ Val(opt) # <<>>

path_to_be_kept(path) ==
    IF Truthy(excludes)
       /\ (InList(path, Val(excludes)) \/ is_inside_any(Val(excludes), path))
    THEN FALSE
    ELSE IF Truthy(includes)
    THEN InList(path, Val(includes)) \/ is_inside_any(Val(includes), path)
    ELSE TRUE

\* a filter that leaves every kept path as it came
path_left_alone(path) == path

adjust_for_new_root(path) ==
    IF new_root = None THEN path
    ELSE IF StartsWith(path, Val(new_root))
    THEN DropFirst(path, Len(Val(new_root)))
    ELSE path

\* The walk of _find_interesting_parent neither changes squashed_commits nor
\* parents, so it never returns exactly when it comes back to a commit_ref
\* it has already left: Diverge stands for that run.
Diverge == << <<"diverge">> >>

\* a walk that takes one step only: the first parent of a squashed commit,
\* squashed or not
parent_one_step(commit_ref, seen) ==
    IF commit_ref \notin squashed_commits THEN Some(commit_ref)
    ELSE LET ps == DictGet(parents, commit_ref)
         IN  IF ~Truthy(ps) THEN None ELSE Some(Val(ps)[1])

RECURSIVE find_interesting_parent_from(_, _)
find_interesting_parent_from(commit_ref, seen) ==
    IF commit_ref \notin squashed_commits THEN Some(commit_ref)
    ELSE LET ps == DictGet(parents, commit_ref)
         IN  IF ~Truthy(ps) THEN None
             ELSE IF commit_ref \in seen THEN Diverge
             ELSE find_interesting_parent_from(Val(ps)[1],
                                               seen \cup {commit_ref})

find_interesting_parent(commit_ref) ==
    find_interesting_parent_from(commit_ref, {})

find_interesting_from(commit_ref) ==
    IF commit_ref = None THEN None
    ELSE find_interesting_parent(Val(commit_ref))

RECURSIVE interesting_merges_of(_)
interesting_merges_of(commit_refs) ==
    IF commit_refs = <<>> THEN <<>>
    ELSE LET parent == find_interesting_parent(Head(commit_refs))
             rest == interesting_merges_of(Tail(commit_refs))
         IN  IF parent = Diverge \/ rest = Diverge THEN Diverge
             ELSE IF parent # None THEN <<Val(parent)>> \o rest
             ELSE rest

find_interesting_merges(commit_refs) ==
    IF commit_refs = None THEN None
    ELSE LET merges == interesting_merges_of(Val(commit_refs))
         IN  IF merges = Diverge THEN Diverge
             ELSE IF merges # <<>> THEN Some(merges)
             ELSE None

\* what stands in the result of _filter_filecommands for a file command
\* whose construction raised ValueError: check_path refused its path
IllegalPath == [name |-> "ValueError"]

convert_rename(fc) ==
    LET old == fc.old_path
        new == fc.new_path
        keep_old == path_to_be_kept(old)
        keep_new == path_to_be_kept(new)
    IN  IF keep_old /\ keep_new
        THEN Some(FileRenameCommand(adjust_for_new_root(old),
                                    adjust_for_new_root(new)))
        ELSE IF keep_old
        THEN IF check_path(adjust_for_new_root(old))
             THEN Some(FileDeleteCommand(adjust_for_new_root(old)))
             ELSE Some(IllegalPath)
        ELSE None

convert_copy(fc) ==
    LET src == fc.src_path
        dest == fc.dest_path
        keep_src == path_to_be_kept(src)
        keep_dest == path_to_be_kept(dest)
    IN  IF keep_src /\ keep_dest
        THEN Some(FileCopyCommand(adjust_for_new_root(src),
                                  adjust_for_new_root(dest)))
        ELSE None

\* one turn of the loop of _filter_filecommands: None is `continue`
filter_filecommand(fc) ==
    IF fc.name \in {"filemodify", "filedelete"}
    THEN IF path_to_be_kept(fc.path)
         THEN Some([fc EXCEPT !.path = adjust_for_new_root(fc.path)])
         ELSE None
    ELSE IF fc.name = "filedeleteall" THEN Some(fc)
    ELSE IF fc.name = "filerename" THEN convert_rename(fc)
    ELSE IF fc.name = "filecopy" THEN convert_copy(fc)
    ELSE None

RECURSIVE filter_each(_)
filter_each(fcs) ==
    IF fcs = <<>> THEN <<>>
    ELSE filter_filecommand(Head(fcs)) \o filter_each(Tail(fcs))

filter_filecommands(filecmds) ==
    IF includes = None /\ excludes = None THEN filecmds
    ELSE filter_each(filecmds)

\* The loop of _filter_filecommands assigns the adjusted paths to the
\* objects of the commit's own list: what that list holds afterwards.
adjusted_in_place(filecmds) ==
    IF includes = None /\ excludes = None THEN filecmds
    ELSE [i \in 1..Len(filecmds) |->
            LET fc == filecmds[i]
                r == filter_filecommand(fc)
            IN  IF r # None /\ Val(r).name = fc.name THEN Val(r) ELSE fc]

\* commit_handler, lines 110-114
RECURSIVE blobs_referenced(_)
blobs_referenced(filecmds) ==
    IF filecmds = <<>> THEN <<>>
    ELSE LET fc == Head(filecmds)
         IN  (IF fc.name = "filemodify" /\ fc.dataref # None
                 /\ ~S_ISDIR(fc.mode)
              THEN <<Val(fc.dataref)>> ELSE <<>>)
             \o blobs_referenced(Tail(filecmds))

\* commit_handler, lines 124-130
parents_of(from_, merges) ==
    IF Truthy(from_) /\ Truthy(merges) THEN Some(<<Val(from_)>> \o Val(merges))
    ELSE IF Truthy(from_) THEN Some(<<Val(from_)>>)
    ELSE None

\* a post_handler that prints no blob at all
no_blob_printed(blob_ids) == <<>>

\* post_handler: what the loop over referenced_blobs prints before it
\* either ends or meets a blob_id that self.blobs does not hold
RECURSIVE printed_blobs(_)
printed_blobs(blob_ids) ==
    IF blob_ids = <<>> THEN <<>>
    ELSE IF Head(blob_ids) \notin DOMAIN blobs THEN <<>>
    ELSE <<blobs[Head(blob_ids)]>> \o printed_blobs(Tail(blob_ids))

post_handler_raises(blob_ids) ==
    \E i \in 1..Len(blob_ids) : blob_ids[i] \notin DOMAIN blobs

\* bytes(cmd) in _print_command: format_path reads p[0] of a path without
\* a newline, which is IndexError for the empty path
format_path_raises(p) == p = <<>>

print_raises(cmd) ==
    \E i \in 1..Len(cmd.file_iter) :
        LET fc == cmd.file_iter[i]
        IN  CASE fc.name \in {"filemodify", "filedelete"} ->
                     format_path_raises(fc.path)
              [] fc.name = "filerename" ->
                     format_path_raises(fc.old_path)
                     \/ format_path_raises(fc.new_path)
              [] fc.name = "filecopy" ->
                     format_path_raises(fc.src_path)
                     \/ format_path_raises(fc.dest_path)
              [] OTHER -> FALSE

\* pre_handler, handler and post_handler of one command that is not a
\* commit; cmd2 is the command as the handler left it
Handled(cmd, cmd2, kept) ==
    /\ cmd_in' = cmd
    /\ command' = cmd2
    /\ keep' = kept
    /\ referenced_blobs' = <<>>
    /\ wrote' = IF kept THEN <<cmd2>> ELSE <<>>
    /\ pc' = "handled"
    /\ status' = "running"
    /\ UNCHANGED <<includes, excludes, squash_empty_commits, new_root,
                   emitted>>

\* the handler never returns: the walk of _find_interesting_parent loops
Hangs(cmd) ==
    /\ cmd_in' = cmd
    /\ command' = cmd
    /\ keep' = FALSE
    /\ referenced_blobs' = <<>>
    /\ wrote' = <<>>
    /\ pc' = "handled"
    /\ status' = "hang"
    /\ UNCHANGED <<includes, excludes, squash_empty_commits, new_root,
                   blobs, squashed_commits, parents, emitted>>

progress_step(cmd) ==
    /\ pc = "loop"
    /\ status = "running"
    /\ Handled(cmd, cmd, TRUE)
    /\ UNCHANGED <<blobs, squashed_commits, parents>>

checkpoint_step(cmd) ==
    /\ pc = "loop"
    /\ status = "running"
    /\ Handled(cmd, cmd, TRUE)
    /\ UNCHANGED <<blobs, squashed_commits, parents>>

feature_step(cmd) ==
    /\ pc = "loop"
    /\ status = "running"
    /\ Handled(cmd, cmd, TRUE)
    /\ UNCHANGED <<blobs, squashed_commits, parents>>

\* a blob handler that buffers the blob and lets it through as well
blob_written_when_read(cmd) ==
    /\ pc = "loop"
    /\ status = "running"
    /\ blobs' = DictPut(blobs, cmd.id, cmd)
    /\ Handled(cmd, cmd, TRUE)
    /\ UNCHANGED <<squashed_commits, parents>>

blob_step(cmd) ==
    /\ pc = "loop"
    /\ status = "running"
    /\ blobs' = DictPut(blobs, cmd.id, cmd)
    /\ Handled(cmd, cmd, FALSE)
    /\ UNCHANGED <<squashed_commits, parents>>

\* a reset handler that lets every reset through as it came
reset_passes_through(cmd) ==
    /\ pc = "loop"
    /\ status = "running"
    /\ Handled(cmd, cmd, TRUE)
    /\ UNCHANGED <<blobs, squashed_commits, parents>>

reset_step(cmd) ==
    /\ pc = "loop"
    /\ status = "running"
    /\ IF cmd.from_ = None
       THEN Handled(cmd, cmd, TRUE)
            /\ UNCHANGED <<blobs, squashed_commits, parents>>
       ELSE LET from_ == find_interesting_from(cmd.from_)
            IN  IF from_ = Diverge THEN Hangs(cmd)
                ELSE Handled(cmd, [cmd EXCEPT !.from_ = from_], from_ # None)
                     /\ UNCHANGED <<blobs, squashed_commits, parents>>

tag_step(cmd) ==
    /\ pc = "loop"
    /\ status = "running"
    /\ LET from_ == find_interesting_from(cmd.from_)
       IN  IF from_ = Diverge THEN Hangs(cmd)
           ELSE Handled(cmd, [cmd EXCEPT !.from_ = from_], from_ # None)
                /\ UNCHANGED <<blobs, squashed_commits, parents>>

\* commit_handler, lines 100-102: all that is left is a single deleteall
lone_deleteall_of(filecmds) ==
    Len(filecmds) = 1 /\ filecmds[1].name = "filedeleteall"

commit_step(cmd) ==
    /\ pc = "loop"
    /\ status = "running"
    /\ LET interesting_filecmds == filter_filecommands(cmd.file_iter)
           lone_deleteall == lone_deleteall_of(interesting_filecmds)
           entered == interesting_filecmds # <<>> \/ ~squash_empty_commits
           kept == entered /\ ~lone_deleteall
           from_ == find_interesting_from(cmd.from_)
           merges == IF from_ = Diverge THEN Diverge
                     ELSE find_interesting_merges(cmd.merges)
           touched == [cmd EXCEPT !.file_iter = adjusted_in_place(@)]
           kept1 == [cmd EXCEPT !.file_iter = interesting_filecmds]
           kept2 == [kept1 EXCEPT !.from_ = from_]
           kept3 == IF merges # None THEN [kept2 EXCEPT !.merges = merges]
                    ELSE kept2
           refs == blobs_referenced(interesting_filecmds)
           illegal == \E i \in 1..Len(interesting_filecmds) :
                          interesting_filecmds[i].name = IllegalPath.name
       IN  IF illegal
           THEN /\ cmd_in' = cmd
                /\ command' = cmd
                /\ keep' = FALSE
                /\ referenced_blobs' = <<>>
                /\ wrote' = <<>>
                /\ pc' = "handled"
                /\ status' = "ValueError"
                /\ UNCHANGED <<includes, excludes, squash_empty_commits,
                               new_root, blobs, squashed_commits, parents,
                               emitted>>
           ELSE IF kept /\ merges = Diverge
           THEN /\ cmd_in' = cmd
                /\ command' = IF from_ = Diverge THEN kept1 ELSE kept2
                /\ keep' = TRUE
                /\ referenced_blobs' = refs
                /\ wrote' = <<>>
                /\ pc' = "handled"
                /\ status' = "hang"
                /\ UNCHANGED <<includes, excludes, squash_empty_commits,
                               new_root, blobs, squashed_commits, parents,
                               emitted>>
           ELSE LET cmd2 == IF kept THEN kept3 ELSE touched
                IN  /\ cmd_in' = cmd
                    /\ command' = cmd2
                    /\ keep' = kept
                    /\ referenced_blobs' = IF kept THEN refs ELSE <<>>
                    /\ squashed_commits' =
                           IF entered THEN squashed_commits
                           ELSE squashed_commits \cup {cmd.id}
                    /\ parents' =
                           IF cmd.mark # None
                           THEN DictPut(parents, <<":">> \o Val(cmd.mark),
                                        parents_of(cmd2.from_, cmd2.merges))
                           ELSE parents
                    /\ wrote' =
                           IF ~kept THEN <<>>
                           ELSE IF post_handler_raises(refs)
                                   \/ print_raises(cmd2)
                           THEN printed_blobs(refs)
                           ELSE printed_blobs(refs) \o <<cmd2>>
                    /\ emitted' =
                           IF kept /\ ~post_handler_raises(refs)
                              /\ ~print_raises(cmd2)
                           THEN emitted \cup {cmd.id} ELSE emitted
                    /\ pc' = "handled"
                    /\ status' =
                           IF kept /\ post_handler_raises(refs)
                           THEN "KeyError"
                           ELSE IF kept /\ print_raises(cmd2)
                           THEN "IndexError" ELSE "running"
                    /\ UNCHANGED <<includes, excludes, squash_empty_commits,
                                   new_root, blobs>>

\* The head of the loop of _process (processor.py:86, 96-97): the filter
\* never sets finished, so the loop goes on to the next command.  What the
\* last cycle left in command, keep and referenced_blobs is dead from here
\* on (pre_handler overwrites all three before anything reads them), and
\* the model forgets it together with its record of the cycle.
next_command ==
    /\ pc = "handled"
    /\ status = "running"
    /\ pc' = "loop"
    /\ command' = NoCommand
    /\ keep' = FALSE
    /\ referenced_blobs' = <<>>
    /\ cmd_in' = NoCommand
    /\ wrote' = <<>>
    /\ UNCHANGED <<includes, excludes, squash_empty_commits, new_root,
                   blobs, squashed_commits, parents, status, emitted>>

\* FilterProcessor.pre_process with the given parameters
pre_process(include_paths, exclude_paths, squash) ==
    /\ includes = include_paths
    /\ excludes = exclude_paths
    /\ squash_empty_commits = squash
    /\ new_root = IF Truthy(include_paths)
                  THEN common_directory(Val(include_paths)) ELSE None
    /\ blobs = EmptyDict
    /\ squashed_commits = {}
    /\ parents = EmptyDict
    /\ command = NoCommand
    /\ keep = FALSE
    /\ referenced_blobs = <<>>
    /\ pc = "loop"
    /\ status = "running"
    /\ cmd_in = NoCommand
    /\ wrote = <<>>
    /\ emitted = {}

-----------------------------------------------------------------------------
(* reftracker.py *)

\* RefTracker.__init__
RefTracker ==
    /\ last_ref = None
    /\ last_ids = EmptyDict
    /\ heads = EmptyDict

SetOf(seq) == {seq[i] : i \in DOMAIN seq}

\* a tracker that only ever adds heads
heads_never_deleted(cmd_ref, cmd_id, parent_ids) ==
    /\ heads' = DictPut(heads, cmd_id,
                        (IF cmd_id \in DOMAIN heads THEN heads[cmd_id] ELSE {})
                        \cup {cmd_ref})
    /\ last_ids' = DictPut(last_ids, cmd_ref, cmd_id)
    /\ last_ref' = Some(cmd_ref)

\* a tracker that remembers the first id of a ref only
first_id_kept(cmd_ref, cmd_id, parent_ids) ==
    /\ heads' = DictPut(heads, cmd_id, {cmd_ref})
    /\ last_ids' = IF cmd_ref \in DOMAIN last_ids THEN last_ids
                   ELSE DictPut(last_ids, cmd_ref, cmd_id)
    /\ last_ref' = Some(cmd_ref)

track_heads_for_ref(cmd_ref, cmd_id, parent_ids) ==
    LET left == IF parent_ids = None THEN DOMAIN heads
                ELSE (DOMAIN heads) \ SetOf(Val(parent_ids))
        heads1 == [k \in left |-> heads[k]]
    IN  /\ heads' = DictPut(heads1, cmd_id,
                            (IF cmd_id \in left THEN heads1[cmd_id] ELSE {})
                            \cup {cmd_ref})
        /\ last_ids' = DictPut(last_ids, cmd_ref, cmd_id)
        /\ last_ref' = Some(cmd_ref)

\* parents.extend(cmd.merges) raises TypeError when merges is None, before
\* anything is tracked
track_heads(cmd) ==
    LET last_id == DictGet(last_ids, cmd.ref)
        true_parents == IF cmd.from_ # None THEN <<Val(cmd.from_)>>
                        ELSE IF last_id # None THEN <<last_id>>
                        ELSE <<>>
    IN  IF cmd.merges = None
        THEN status' = "TypeError" /\ UNCHANGED refVars
        ELSE /\ status' = status
             /\ track_heads_for_ref(cmd.ref, cmd.id,
                                    Some(true_parents \o Val(cmd.merges)))

-----------------------------------------------------------------------------
(* The filter driven by every sequence of commands over a small universe:  *)
(* three commit marks, one blob mark, two paths.  The state keeps what the *)
(* last handler cycle wrote, not the whole output, so the universe is      *)
(* explored to any length of the stream.                                   *)

RefR == <<"r">>
PathA == <<"a">>
PathB == <<"b">>
Who == << <<"J">>, <<"e">>, 5, 0 >>
Msg == <<"m">>
GraphMarks == {<<"1">>, <<"2">>, <<"3">>}
GraphIds == {<<":">> \o m : m \in GraphMarks}
BlobMark == <<"9">>
BlobRef == <<":">> \o BlobMark

ParsedCommit(mark, from_, merges, file_iter, lineno) ==
    CommitCommand(RefR, mark, None, Who, Msg, from_, Some(merges), file_iter,
                  lineno, <<>>, EmptyDict)

GraphFileOps ==
    {<<>>, <<FileDeleteCommand(PathA)>>, <<FileDeleteCommand(PathB)>>,
     <<FileDeleteAllCommand>>}

\* the parents a marked commit of the universe may name: itself or the
\* mark before it
GraphFroms(mark) ==
    CASE mark = <<"1">> -> {<<":", "1">>}
      [] mark = <<"2">> -> {<<":", "1">>, <<":", "2">>}
      [] OTHER -> {<<":", "2">>, <<":", "3">>}

GraphCommits ==
    {ParsedCommit(None, from_, <<>>, ops, 0) :
        from_ \in {None} \cup {Some(i) : i \in GraphIds},
        ops \in GraphFileOps}
    \cup
    UNION {{ParsedCommit(Some(mark), from_, <<>>, ops, 0) :
               from_ \in {None} \cup {Some(i) : i \in GraphFroms(mark)},
               ops \in GraphFileOps} : mark \in GraphMarks}
    \cup
    {ParsedCommit(Some(<<"3">>), from_, <<<<":", "1">>, <<":", "2">>>>, ops, 0) :
        from_ \in {None, Some(<<":", "2">>)},
        ops \in {<<>>, <<FileDeleteCommand(PathA)>>}}
    \cup
    {ParsedCommit(None, None, <<>>,
                  <<FileModifyCommand(PathA, Mode644, Some(BlobRef), None)>>, 0)}

GraphResets == {ResetCommand(RefR, from_) :
                   from_ \in {None} \cup {Some(i) : i \in GraphIds}}
GraphTags == {TagCommand(<<"t">>, from_, Some(Who), Msg) :
                 from_ \in {None} \cup {Some(i) : i \in GraphIds}}
GraphBlobs == {BlobCommand(Some(BlobMark), <<"x">>, 0)}

Init ==
    /\ \E squash \in BOOLEAN, exclude_paths \in {None, Some(<<PathB>>)} :
           pre_process(None, exclude_paths, squash)
    /\ cmds = <<>>
    /\ outf = <<>>
    /\ RefTracker
    /\ parser = LineBasedParser(<<>>)
    /\ finished = FALSE
    /\ called = <<>>
    /\ command_iter = <<>>
    /\ handlers = {}
    /\ blob_ref_counts = EmptyDict

Progress == \E cmd \in {ProgressCommand(Msg)} :
                progress_step(cmd) /\ UNCHANGED <<histVars, refVars, drvVars>>
Checkpoint == \E cmd \in {CheckpointCommand} :
                  checkpoint_step(cmd) /\ UNCHANGED <<histVars, refVars, drvVars>>
Feature == \E cmd \in {FeatureCommand(<<"f">>, None, 0)} :
               feature_step(cmd) /\ UNCHANGED <<histVars, refVars, drvVars>>
Blob == \E cmd \in GraphBlobs : blob_step(cmd) /\ UNCHANGED <<histVars, refVars, drvVars>>
Reset == \E cmd \in GraphResets : reset_step(cmd) /\ UNCHANGED <<histVars, refVars, drvVars>>
Tag == \E cmd \in GraphTags : tag_step(cmd) /\ UNCHANGED <<histVars, refVars, drvVars>>
\* the streams of this universe define each commit mark once
Commit == \E cmd \in GraphCommits :
              /\ cmd.mark # None => cmd.id \notin DOMAIN parents
              /\ commit_step(cmd)
              /\ UNCHANGED <<histVars, refVars, drvVars>>

NextCommand == next_command /\ UNCHANGED <<histVars, refVars, drvVars>>

Next == Progress \/ Checkpoint \/ Feature \/ Blob \/ Reset \/ Tag \/ Commit
        \/ NextCommand

Spec == Init /\ [][Next]_vars

-----------------------------------------------------------------------------
(* The first-parent walk, stated on its own: the k-th first parent of an   *)
(* id through squashed commits, and where such a chain ends.               *)

RECURSIVE NthFirstParent(_, _, _, _)
\* None when the chain breaks before k steps: some id on the way is not
\* squashed, or has no recorded parent
NthFirstParent(sq, par, x, k) ==
    IF k = 0 THEN Some(x)
    ELSE IF x \notin sq THEN None
    ELSE IF x \notin DOMAIN par THEN None
    ELSE IF par[x] = None THEN None
    ELSE IF par[x][1] = <<>> THEN None
    ELSE NthFirstParent(sq, par, par[x][1][1], k - 1)

\* y is the nearest first-parent ancestor of x (x itself included) that is
\* not squashed, under the squashed set sq and the parents map par
NearestKept(sq, par, x, y) ==
    /\ y \notin sq
    /\ \E k \in 0..Cardinality(sq) : NthFirstParent(sq, par, x, k) = Some(y)

HasNearestKept(sq, par, x) ==
    \E k \in 0..Cardinality(sq) :
        LET a == NthFirstParent(sq, par, x, k)
        IN  a # None /\ Val(a) \notin sq

RefersBack(c) == c.name \in {"commit", "reset", "tag"} /\ c.from_ # None
WroteCommand == wrote # <<>> /\ wrote[Len(wrote)].name = cmd_in.name
Written == wrote[Len(wrote)]

\* C3 as stated: every commit, reset or tag D whose from_ names a squashed
\* commit whose nearest non-squashed first-parent ancestor A was emitted
\* is itself emitted, with from_ = A.
C3_AsStated ==
    [][(pc' = "handled" /\ RefersBack(cmd_in')
        /\ Val(cmd_in'.from_) \in squashed_commits)
       => LET d == cmd_in'
              out == wrote'
          IN  \A y \in GraphIds :
                  (y \in emitted
                   /\ NearestKept(squashed_commits, parents, Val(d.from_), y))
                  => /\ out # <<>>
                     /\ out[Len(out)].name = d.name
                     /\ out[Len(out)].from_ = Some(y)]_vars

\* C3 (amended): a step that handles a commit, reset or tag D whose from_
\* names a squashed commit B writes D -- always for a reset or tag, and for
\* a commit whenever the commit itself is written -- with from_ the nearest
\* non-squashed first-parent ancestor of B, through any number of squashed
\* commits; when the chain ends at a root without one, a reset or tag is
\* not written and a commit that is written has no from_.
C3_ParentSquashLaw ==
    [][(pc' = "handled" /\ RefersBack(cmd_in')
        /\ Val(cmd_in'.from_) \in squashed_commits)
       => LET x == Val(cmd_in'.from_)
              d == cmd_in'
              out == wrote'
              last == out[Len(out)]
              wroteD == out # <<>> /\ last.name = d.name
          IN  /\ \A y \in GraphIds :
                     NearestKept(squashed_commits, parents, x, y)
                     => /\ d.name # "commit" => wroteD
                        /\ wroteD => last.from_ = Some(y)
              /\ (~HasNearestKept(squashed_commits, parents, x)
                  /\ status' = "running")
                 => /\ d.name # "commit" => out = <<>>
                    /\ wroteD => last.from_ = None]_vars

\* a commit whose from_ was rewritten across two squashed commits
C3_Witness ==
    /\ pc = "handled" /\ cmd_in.name = "commit" /\ WroteCommand
    /\ cmd_in.from_ = Some(<<":", "3">>)
    /\ Written.from_ = Some(<<":", "1">>)
    /\ {<<":", "2">>, <<":", "3">>} \subseteq squashed_commits
    /\ <<":", "1">> \notin squashed_commits
    /\ DictGet(parents, <<":", "3">>) = Some(<<<<":", "2">>>>)
    /\ DictGet(parents, <<":", "2">>) = Some(<<<<":", "1">>>>)

\* C5: a reset without from_ is written unchanged; a reset or tag with
\* from_ = X is written exactly when the first-parent walk from X through
\* squashed commits ends at a non-squashed id Y, and then with from_ = Y;
\* otherwise nothing at all is written for it.
C5_ResetTagRetention ==
    (pc = "handled" /\ cmd_in.name \in {"reset", "tag"})
    => IF cmd_in.from_ = None
       THEN cmd_in.name = "reset" => wrote = <<cmd_in>>
       ELSE LET x == Val(cmd_in.from_)
            IN  /\ \A y \in GraphIds :
                       NearestKept(squashed_commits, parents, x, y)
                       => wrote = <<[cmd_in EXCEPT !.from_ = Some(y)]>>
                /\ ~HasNearestKept(squashed_commits, parents, x)
                   => wrote = <<>>

\* a tag that names the squashed :2 and is written with :1, in a stream
\* that also squashed the parentless :3
C5_Witness ==
    /\ pc = "handled" /\ cmd_in.name = "tag"
    /\ cmd_in.from_ = Some(<<":", "2">>)
    /\ <<":", "2">> \in squashed_commits
    /\ wrote # <<>> /\ wrote[1].from_ = Some(<<":", "1">>)
    /\ <<":", "3">> \in squashed_commits
    /\ DictGet(parents, <<":", "3">>) = None

\* C6 as stated: with squash_empty_commits false, a commit whose file
\* commands after filtering are empty or a lone deleteall is written, and
\* squashed_commits stays empty.
C6_AsStated ==
    (pc = "handled" /\ ~squash_empty_commits /\ cmd_in.name = "commit"
     /\ (filter_filecommands(cmd_in.file_iter) = <<>>
         \/ lone_deleteall_of(filter_filecommands(cmd_in.file_iter))))
    => /\ wrote # <<>>
       /\ wrote[Len(wrote)].name = "commit"
       /\ wrote[Len(wrote)].id = cmd_in.id
       /\ squashed_commits = {}

-----------------------------------------------------------------------------
(* The filter with its whole input and output on record: every stream of   *)
(* at most MaxCmds commands over a universe made for the blob buffer -- a  *)
(* blob, commits that reference it once, twice, again, or name a dataref   *)
(* that was never buffered, and the three commits of the squash scenario.  *)

MaxCmds == 4

ShaRef == <<"s">>
ModifyA == FileModifyCommand(PathA, Mode644, Some(BlobRef), None)
ModifyB == FileModifyCommand(PathB, Mode644, Some(BlobRef), None)
ModifySha == FileModifyCommand(PathB, Mode644, Some(ShaRef), None)

\* lineno: the position of the command in the stream stands for the line
\* the parser read it from
HistBlobs(lineno) == {BlobCommand(Some(BlobMark), <<"x">>, lineno)}

HistCommits(lineno) ==
    {ParsedCommit(Some(<<"1">>), None, <<>>, <<ModifyA>>, lineno),
     ParsedCommit(Some(<<"2">>), None, <<>>, <<>>, lineno),
     ParsedCommit(Some(<<"2">>), Some(<<":", "1">>), <<>>, <<>>, lineno),
     ParsedCommit(None, Some(<<":", "2">>), <<>>, <<ModifyB>>, lineno),
     ParsedCommit(None, None, <<>>, <<ModifyA, ModifyB>>, lineno),
     ParsedCommit(None, None, <<>>, <<ModifyA, ModifySha>>, lineno),
     ParsedCommit(None, None, <<>>, <<FileDeleteAllCommand>>, lineno)}

HistResets == {ResetCommand(RefR, None)}
HistTags == {TagCommand(<<"t">>, Some(<<":", "1">>), Some(Who), Msg)}

InitHist ==
    /\ \E squash \in BOOLEAN, exclude_paths \in {None, Some(<<PathB>>)} :
           /\ exclude_paths # None => squash
           /\ pre_process(None, exclude_paths, squash)
    /\ cmds = <<>>
    /\ outf = <<>>
    /\ RefTracker
    /\ parser = LineBasedParser(<<>>)
    /\ finished = FALSE
    /\ called = <<>>
    /\ command_iter = <<>>
    /\ handlers = {}
    /\ blob_ref_counts = EmptyDict

\* one turn of the loop of _process, recorded: the command read and what
\* its handler cycle wrote
Recorded(cmd) ==
    /\ cmds' = Append(cmds, cmd)
    /\ outf' = outf \o wrote'
    /\ UNCHANGED <<refVars, drvVars>>

HistProgress ==
    /\ Len(cmds) < MaxCmds
    /\ \E cmd \in {ProgressCommand(Msg)} : progress_step(cmd) /\ Recorded(cmd)
HistBlob ==
    /\ Len(cmds) < MaxCmds
    /\ \E cmd \in HistBlobs(Len(cmds) + 1) : blob_step(cmd) /\ Recorded(cmd)
HistReset ==
    /\ Len(cmds) < MaxCmds
    /\ \E cmd \in HistResets : reset_step(cmd) /\ Recorded(cmd)
HistTag ==
    /\ Len(cmds) < MaxCmds
    /\ \E cmd \in HistTags : tag_step(cmd) /\ Recorded(cmd)
HistCommit ==
    /\ Len(cmds) < MaxCmds
    /\ \E cmd \in HistCommits(Len(cmds) + 1) :
           commit_step(cmd) /\ Recorded(cmd)
HistNextCommand == next_command /\ UNCHANGED <<histVars, refVars, drvVars>>

NextHist == HistProgress \/ HistBlob \/ HistReset \/ HistTag \/ HistCommit
            \/ HistNextCommand

SpecHist == InitHist /\ [][NextHist]_vars

-----------------------------------------------------------------------------
(* Streams and outputs as sequences of commands *)

NoPathsDefaults == includes = None /\ excludes = None /\ squash_empty_commits

\* where the run of blobs that ends just before position i begins
RECURSIVE RunStart(_, _)
RunStart(s, i) ==
    IF i > 1 /\ s[i - 1].name = "blob" THEN RunStart(s, i - 1) ELSE i

RunIds(s, i) == [k \in 1..(i - RunStart(s, i)) |-> s[RunStart(s, i) + k - 1].id]

Distinct(seq) == \A i, j \in DOMAIN seq : seq[i] = seq[j] => i = j

\* a stream whose blobs stand directly before the commit that references
\* them, once each and in their order, and whose commits all carry file
\* commands other than a lone deleteall
PlainStream(s) ==
    \A i \in DOMAIN s :
        /\ s[i].name = "blob"
           => i < Len(s) /\ s[i + 1].name \in {"blob", "commit"}
        /\ s[i].name = "commit"
           => /\ s[i].file_iter # <<>>
              /\ ~lone_deleteall_of(s[i].file_iter)
              /\ blobs_referenced(s[i].file_iter) = RunIds(s, i)
              /\ Distinct(RunIds(s, i))
        /\ s[i].name \notin {"blob", "commit"}
           => (i > 1 => s[i - 1].name # "blob")

CommitsWritten == {outf[i] : i \in {j \in DOMAIN outf : outf[j].name = "commit"}}

\* C4 as stated: with the defaults, after a blob, a commit C1 on ref R that
\* uses it, an empty commit C2 that is the next commit on R (with from_
\* naming C1 or without from_) and a commit C3 with from_ = id(C2) that has
\* file commands, C1 is written, C2 is not, and C3 is written with
\* from_ = id(C1).
C4_AsStated ==
    \A h, i, j, k \in DOMAIN cmds :
        (/\ NoPathsDefaults
         /\ h < i /\ i < j /\ j < k
         /\ cmds[h].name = "blob"
         /\ cmds[i].name = "commit" /\ cmds[i].mark # None
         /\ blobs_referenced(cmds[i].file_iter) = <<cmds[h].id>>
         /\ cmds[j].name = "commit" /\ cmds[j].mark # None
         /\ cmds[j].ref = cmds[i].ref
         /\ cmds[j].file_iter = <<>>
         /\ cmds[j].from_ \in {None, Some(cmds[i].id)}
         /\ cmds[j].id # cmds[i].id
         /\ \A m \in (i + 1)..(j - 1) : cmds[m].name # "commit"
         /\ \A m \in (h + 1)..(i - 1) : cmds[m].name # "blob"
         /\ cmds[k].name = "commit"
         /\ cmds[k].from_ = Some(cmds[j].id)
         /\ cmds[k].file_iter # <<>>
         /\ ~lone_deleteall_of(cmds[k].file_iter)
         /\ pc = "handled" /\ k = Len(cmds))
        => /\ \E c \in CommitsWritten : c.lineno = i
           /\ \A c \in CommitsWritten : c.lineno # j
           /\ \E c \in CommitsWritten :
                  c.lineno = k /\ c.from_ = Some(cmds[i].id)

\* the non-blob commands of a sequence, each as its kind and, where the
\* command records one, the line it was read from
RECURSIVE NonBlobKeys(_)
NonBlobKeys(s) ==
    IF s = <<>> THEN <<>>
    ELSE LET c == Head(s)
         IN  (IF c.name = "blob" THEN <<>>
              ELSE IF c.name \in {"commit", "feature"}
              THEN << <<c.name, c.lineno>> >>
              ELSE << <<c.name, 0>> >>)
             \o NonBlobKeys(Tail(s))

RECURSIVE IsSubsequence(_, _)
IsSubsequence(a, b) ==
    IF a = <<>> THEN TRUE
    ELSE IF b = <<>> THEN FALSE
    ELSE IF Head(a) = Head(b) THEN IsSubsequence(Tail(a), Tail(b))
    ELSE IsSubsequence(a, Tail(b))

BlobPositions == {i \in DOMAIN outf : outf[i].name = "blob"}
CommitPositions == {i \in DOMAIN outf : outf[i].name = "commit"}
RefsAt(c) == blobs_referenced(outf[c].file_iter)

\* the blob the stream last defined under blob_id before line lineno
BufferedAt(blob_id, lineno) ==
    LET defs == {i \in DOMAIN cmds : /\ i < lineno
                                     /\ cmds[i].name = "blob"
                                     /\ cmds[i].id = blob_id}
    IN  cmds[CHOOSE i \in defs : \A j \in defs : j <= i]

\* the blobs written for the references of the commit at position c of
\* outf stand directly before it, in the order of the references
BlockBefore(c) ==
    LET refs == RefsAt(c)
        n == Len(refs)
    IN  /\ c > n
        /\ \A k \in 1..n :
               outf[c - n + k - 1] = BufferedAt(refs[k], outf[c].lineno)

\* position b of outf belongs to the block of the commit that follows it
InBlock(b) ==
    \E c \in CommitPositions :
        /\ b < c /\ c - b <= Len(RefsAt(c))
        /\ \A m \in b..(c - 1) : outf[m].name = "blob"

\* position b lies in what post_handler printed before it raised KeyError
InBrokenTail(b) ==
    /\ status = "KeyError"
    /\ \A m \in b..Len(outf) : outf[m].name = "blob"

-----------------------------------------------------------------------------
(* The filter run on one commit with one file command, for every path of   *)
(* at most MaxPathLen characters over a letter and the slash, and for      *)
(* include lists of one, two and three strings, with and without excludes. *)

MaxPathLen == 3

PathChars == {"a", "/"}
PathStrings(n) == UNION {[1..k -> PathChars] : k \in 0..n}
\* the paths check_path lets a file command carry
LegalPaths == {q \in PathStrings(MaxPathLen) : q # <<>> /\ q[1] # "/"}

ShortPaths == {<<"a">>, <<"a", "a">>, <<"a", "/">>, <<"a", "/", "a">>}

IncludeLists ==
    {None}
    \cup {Some(<<q>>) : q \in PathStrings(MaxPathLen)}
    \cup {Some(<<q, r>>) : q \in PathStrings(MaxPathLen),
                           r \in PathStrings(2)}
    \cup {Some(<<q, <<"a", "/", "a">>, <<"a", "/">>>>) :
              q \in PathStrings(2)}
ExcludeLists == {None, Some(<< <<"a", "a">> >>), Some(<< <<"a", "/", "a">> >>)}

PathFileCommands ==
    {FileModifyCommand(q, Mode644, None, Some(<<"x">>)) : q \in LegalPaths}
    \cup {FileDeleteCommand(q) : q \in LegalPaths}
    \cup {FileRenameCommand(q, r) : q \in LegalPaths, r \in ShortPaths}
    \cup {FileCopyCommand(q, r) : q \in LegalPaths, r \in ShortPaths}

InitPaths ==
    /\ \E include_paths \in IncludeLists, exclude_paths \in ExcludeLists,
          squash \in BOOLEAN :
           pre_process(include_paths, exclude_paths, squash)
    /\ cmds = <<>>
    /\ outf = <<>>
    /\ RefTracker
    /\ parser = LineBasedParser(<<>>)
    /\ finished = FALSE
    /\ called = <<>>
    /\ command_iter = <<>>
    /\ handlers = {}
    /\ blob_ref_counts = EmptyDict

\* the one commit of the stream
PathCommit ==
    /\ cmds = <<>>
    /\ \E fc \in PathFileCommands :
           LET cmd == ParsedCommit(None, None, <<>>, <<fc>>, 1)
           IN  commit_step(cmd) /\ Recorded(cmd)

NextPaths == PathCommit

SpecPaths == InitPaths /\ [][NextPaths]_vars

\* the pairs <<path read, path written>> of a file command and of what the
\* filter made of it
PathsReadWritten(fc, out) ==
    IF fc.name \in {"filemodify", "filedelete"}
    THEN {<<fc.path, out.path>>}
    ELSE IF fc.name = "filerename" /\ out.name = "filerename"
    THEN {<<fc.old_path, out.old_path>>, <<fc.new_path, out.new_path>>}
    ELSE IF fc.name = "filerename"
    THEN {<<fc.old_path, out.path>>}
    ELSE {<<fc.src_path, out.src_path>>, <<fc.dest_path, out.dest_path>>}

CommitWritten ==
    /\ pc = "handled" /\ cmd_in.name = "commit"
    /\ wrote # <<>> /\ wrote[Len(wrote)].name = "commit"

\* C8: every path of a Modify, Delete, Rename or Copy that the filter
\* keeps is written as the path read with common_directory(include_paths)
\* taken off its front; without include paths it is written unchanged.
C8_NewRootRewriting ==
    (CommitWritten /\ wrote[Len(wrote)].file_iter # <<>>)
    => \A rw \in PathsReadWritten(cmd_in.file_iter[1],
                                  wrote[Len(wrote)].file_iter[1]) :
           IF Truthy(includes)
           THEN Val(common_directory(Val(includes))) \o rw[2] = rw[1]
           ELSE rw[2] = rw[1]

\* a copy inside the common directory a/ of two include paths, written
\* relative to it
C8_Witness ==
    /\ CommitWritten
    /\ includes = Some(<< <<"a", "/", "a">>, <<"a", "/">> >>)
    /\ cmd_in.file_iter = <<FileCopyCommand(<<"a", "/", "/">>,
                                            <<"a", "/", "a">>)>>
    /\ wrote[1].file_iter = <<FileCopyCommand(<<"/">>, <<"a">>)>>

\* C9 as stated: a Rename with both paths kept is written as a Rename of the two
\* root-adjusted paths; with only the old path kept, as a Delete of the
\* root-adjusted old path; with only the new path kept, or neither, no file
\* command is written for it.
C9_AsStated ==
    (pc = "handled" /\ cmd_in.name = "commit"
     /\ cmd_in.file_iter[1].name = "filerename")
    => LET fc == cmd_in.file_iter[1]
           keep_old == path_to_be_kept(fc.old_path)
           keep_new == path_to_be_kept(fc.new_path)
           old == adjust_for_new_root(fc.old_path)
           new == adjust_for_new_root(fc.new_path)
       IN  /\ (keep_old /\ keep_new)
              => /\ CommitWritten
                 /\ wrote[1].file_iter = <<FileRenameCommand(old, new)>>
           /\ (keep_old /\ ~keep_new)
              => /\ CommitWritten
                 /\ wrote[1].file_iter = <<FileDeleteCommand(old)>>
           /\ ~keep_old
              => /\ squash_empty_commits => wrote = <<>>
                 /\ ~squash_empty_commits
                    => CommitWritten /\ wrote[1].file_iter = <<>>

-----------------------------------------------------------------------------
(* The RefTracker fed every sequence of at most MaxCalls commits over two  *)
(* refs and three marks.                                                   *)

MaxCalls == 3

RefS == <<"s">>
TrackedCommit(ref, mark, from_, merges) ==
    CommitCommand(ref, Some(mark), None, Who, Msg, from_, merges, <<>>, 0,
                  <<>>, EmptyDict)

RefCommits ==
    {TrackedCommit(ref, mark, from_, Some(<<>>)) :
        ref \in {RefR, RefS}, mark \in GraphMarks,
        from_ \in {None, Some(<<":", "1">>), Some(<<":", "3">>)}}
    \cup {TrackedCommit(RefR, <<"3">>, None, Some(<< <<":", "1">>, <<":", "2">> >>)),
          TrackedCommit(RefS, <<"2">>, Some(<<":", "1">>), None)}

InitRef ==
    /\ pre_process(None, None, TRUE)
    /\ cmds = <<>>
    /\ outf = <<>>
    /\ RefTracker
    /\ parser = LineBasedParser(<<>>)
    /\ finished = FALSE
    /\ called = <<>>
    /\ command_iter = <<>>
    /\ handlers = {}
    /\ blob_ref_counts = EmptyDict

\* cmds keeps the commits the tracker has tracked
TrackHeads ==
    /\ status = "running"
    /\ Len(cmds) < MaxCalls
    /\ \E cmd \in RefCommits :
           /\ track_heads(cmd)
           /\ cmds' = IF cmd.merges = None THEN cmds ELSE Append(cmds, cmd)
    /\ UNCHANGED <<drvVars,
                   includes, excludes, squash_empty_commits, new_root, blobs,
                   squashed_commits, parents, command, keep, referenced_blobs,
                   pc, cmd_in, wrote, emitted, outf>>

NextRef == TrackHeads

SpecRef == InitRef /\ [][NextRef]_vars

\* the commits tracked on ref, and the id of the latest of them
CallsOn(ref) == {k \in DOMAIN cmds : cmds[k].ref = ref}
Latest(calls) == CHOOSE k \in calls : \A j \in calls : j <= k

\* the parents of the k-th tracked commit: its from_, or without one the
\* commit before it on its ref, and its merges
TrueParents(k) ==
    LET before == {j \in CallsOn(cmds[k].ref) : j < k}
    IN  (IF cmds[k].from_ # None THEN {Val(cmds[k].from_)}
         ELSE IF before # {} THEN {cmds[Latest(before)].id}
         ELSE {})
        \cup SetOf(Val(cmds[k].merges))

\* C10 as stated: ref is in heads[id] exactly when id is the most recent
\* commit on ref.
C10_AsStated ==
    \A id \in GraphIds : \A ref \in {RefR, RefS} :
        (id \in DOMAIN heads /\ ref \in heads[id])
        <=> (CallsOn(ref) # {} /\ cmds[Latest(CallsOn(ref))].id = id)

\* C10 (amended): heads holds the commits no later commit has named as a
\* parent (by from_, else by being the last commit on the ref, or by a
\* merge): id is a key of heads exactly when it was committed at or after
\* the last call that named it as a parent, and heads[id] is the set of
\* the refs it was committed on since then.
C10_HeadsAreChildless ==
    \A id \in GraphIds :
        LET named == {k \in DOMAIN cmds : id \in TrueParents(k)}
            since == IF named = {} THEN 1 ELSE Latest(named)
            refs == {cmds[k].ref :
                        k \in {j \in DOMAIN cmds : j >= since /\ cmds[j].id = id}}
        IN  IF refs = {} THEN id \notin DOMAIN heads
            ELSE id \in DOMAIN heads /\ heads[id] = refs

\* :1 is the last commit on r and no head, :2 is a head for s although :3
\* was committed on s after it
C10_Witness ==
    /\ Len(cmds) = 3
    /\ CallsOn(RefR) # {} /\ CallsOn(RefS) # {}
    /\ cmds[Latest(CallsOn(RefR))].id = <<":", "1">>
    /\ <<":", "1">> \notin DOMAIN heads
    /\ cmds[Latest(CallsOn(RefS))].id = <<":", "3">>
    /\ <<":", "2">> \in DOMAIN heads /\ heads[<<":", "2">>] = {RefS}

-----------------------------------------------------------------------------
(* The RefTracker called both ways: track_heads with a commit and          *)
(* track_heads_for_ref with a ref, an id and parents.  cmds keeps the      *)
(* calls that returned: the commit, or the ref and id of a direct call.    *)

DirectCalls ==
    {<<ref, id, parent_ids>> :
        ref \in {RefR, RefS}, id \in {<<":", "1">>, <<":", "2">>},
        parent_ids \in {None, Some(<< <<":", "1">> >>)}}

TrackHeadsForRef ==
    /\ status = "running"
    /\ Len(cmds) < MaxCalls
    /\ \E call \in DirectCalls :
           /\ track_heads_for_ref(call[1], call[2], call[3])
           /\ cmds' = Append(cmds, [ref |-> call[1], id |-> call[2]])
    /\ UNCHANGED <<drvVars,
                   includes, excludes, squash_empty_commits, new_root, blobs,
                   squashed_commits, parents, command, keep, referenced_blobs,
                   pc, status, cmd_in, wrote, emitted, outf>>

NextLast == TrackHeads \/ TrackHeadsForRef

SpecLast == InitRef /\ [][NextLast]_vars

\* C11: after every call that returns, last_ids maps exactly the refs
\* passed so far, each to the id of the most recent call for it, last_ref
\* is the ref of the call, and the call leaves the entries of all other
\* refs as they were.
C11_LastIds ==
    [][Len(cmds') = Len(cmds) + 1
       => /\ DOMAIN last_ids' = {cmds'[k].ref : k \in DOMAIN cmds'}
          /\ \A r \in DOMAIN last_ids' :
                 last_ids'[r] = cmds'[Latest({k \in DOMAIN cmds' :
                                                 cmds'[k].ref = r})].id
          /\ last_ref' = Some(cmds'[Len(cmds')].ref)
          /\ \A r \in {RefR, RefS} \ {cmds'[Len(cmds')].ref} :
                 /\ r \in DOMAIN last_ids' <=> r \in DOMAIN last_ids
                 /\ r \in DOMAIN last_ids => last_ids'[r] = last_ids[r]]_vars

\* r was given :1 and then :2, by a commit and by a direct call, while s
\* keeps the :1 it was given in between
C11_Witness ==
    /\ Len(cmds) = 3
    /\ cmds[1].ref = RefR /\ cmds[1].id = <<":", "1">>
    /\ cmds[2].ref = RefS /\ cmds[2].id = <<":", "1">>
    /\ cmds[3] = [ref |-> RefR, id |-> <<":", "2">>]
    /\ "name" \in DOMAIN cmds[1]
    /\ last_ids[RefR] = <<":", "2">> /\ last_ids[RefS] = <<":", "1">>
    /\ last_ref = Some(RefR)

-----------------------------------------------------------------------------
(* The round trip: a command is constructed, written as _print_command     *)
(* writes it (its bytes and the newline that ends them), and the bytes are *)
(* parsed with list(ImportParser(outf).iter_commands()).  cmd_in is the    *)
(* command, outf its bytes, cmds the commands parsed and status the        *)
(* exception the parser raised.  The commands carry the lineno the parser  *)
(* gives a command that opens the stream.                                  *)

WhoEast == << <<"E">>, <<"e">>, 7, 3600 >>
TagV == <<"v">>

RTAuthors ==
    {<<None, <<>>>>, <<Some(Who), <<>>>>, <<Some(Who), <<WhoEast>>>>}
RTProperties ==
    {EmptyDict, DictPut(EmptyDict, <<"p">>, Some(<<"v">>)),
     DictPut(EmptyDict, <<"p">>, None)}
RTFileOps ==
    {<<>>,
     <<FileModifyCommand(PathA, Mode644, Some(<<":", "9">>), None)>>,
     <<FileModifyCommand(PathA, Mode755, None, Some(Msg))>>,
     <<FileDeleteCommand(PathA)>>,
     <<FileRenameCommand(PathA, PathB)>>,
     <<FileCopyCommand(PathA, PathB)>>,
     <<FileDeleteAllCommand, FileDeleteCommand(PathB)>>}

RTCommits ==
    {CommitCommand(RefR, mark, authors[1], Who, Msg, from_, merges, files, 1,
                   authors[2], properties) :
        mark \in {None, Some(<<"1">>)}, authors \in RTAuthors,
        from_ \in {None, Some(<<":", "2">>)},
        merges \in {None, Some(<<>>), Some(<< <<":", "3">> >>)},
        properties \in RTProperties, files \in RTFileOps}
RTBlobs ==
    {BlobCommand(mark, data, 1) :
        mark \in {None, Some(<<"1">>)}, data \in {<<>>, Msg, <<"m", LF>>}}
RTResets == {ResetCommand(RefR, from_) : from_ \in {None, Some(<<":", "1">>)}}
RTTags ==
    {TagCommand(TagV, from_, tagger, message) :
        from_ \in {None, Some(<<":", "1">>)}, tagger \in {None, Some(Who)},
        message \in {<<>>, Msg}}
RTFeatures ==
    {FeatureCommand(<<"f">>, value, 1) : value \in {None, Some(<<"v">>)}}
RTCommands ==
    RTCommits \cup RTBlobs \cup RTResets \cup RTTags \cup RTFeatures
    \cup {ProgressCommand(Msg), CheckpointCommand}

\* list(parser.iter_commands()); result the commands yielded so far
RECURSIVE list_iter_commands(_, _)
list_iter_commands(ps, result) ==
    The({IF r.err # None THEN [r EXCEPT !.val = result]
         ELSE IF r.val = None THEN Ok(r.ps, result)
         ELSE list_iter_commands(r.ps, Append(result, Val(r.val))) :
            r \in {iter_commands(ps)}})

InitRT ==
    /\ pre_process(None, None, TRUE)
    /\ cmds = <<>>
    /\ outf = <<>>
    /\ RefTracker
    /\ parser = LineBasedParser(<<>>)
    /\ finished = FALSE
    /\ called = <<>>
    /\ command_iter = <<>>
    /\ handlers = {}
    /\ blob_ref_counts = EmptyDict

Construct ==
    /\ pc = "loop"
    /\ \E c \in RTCommands : cmd_in' = c
    /\ pc' = "constructed"
    /\ UNCHANGED <<drvVars,
                   includes, excludes, squash_empty_commits, new_root, blobs,
                   squashed_commits, parents, command, keep, referenced_blobs,
                   status, wrote, emitted, histVars, refVars>>

Serialize ==
    /\ pc = "constructed"
    /\ outf' = print_command(cmd_in)
    /\ pc' = "serialized"
    /\ UNCHANGED <<drvVars,
                   includes, excludes, squash_empty_commits, new_root, blobs,
                   squashed_commits, parents, command, keep, referenced_blobs,
                   status, cmd_in, wrote, emitted, cmds, refVars>>

Parse ==
    /\ pc = "serialized"
    /\ \E r \in {list_iter_commands(LineBasedParser(outf), <<>>)} :
           /\ cmds' = r.val
           /\ status' = IF r.err = None THEN status ELSE Val(r.err)
    /\ pc' = "parsed"
    /\ UNCHANGED <<drvVars,
                   includes, excludes, squash_empty_commits, new_root, blobs,
                   squashed_commits, parents, command, keep, referenced_blobs,
                   cmd_in, wrote, emitted, outf, refVars>>

NextRT == Construct \/ Serialize \/ Parse

SpecRT == InitRT /\ [][NextRT]_vars

\* C1 as stated: parsing the bytes written for a command yields that
\* command, equal to it field by field.
C1_AsStated ==
    pc = "parsed" => (status = "running" /\ cmds = <<cmd_in>>)

-----------------------------------------------------------------------------
(* The parser on whole streams: a stream is up to MaxUnits texts one after *)
(* the other, outf holds its bytes, each step is one step of the generator *)
(* iter_commands and cmds keeps the commands it has yielded.               *)

MaxUnits == 3

Line(bytes) == bytes \o <<LF>>
DataX == Line(B_data \o <<"1">>) \o <<"x">>
HereDocX == Line(B_data \o <<"<", "<", "E">>) \o Line(<<"x">>)
CommentLine == Line(<<"#", " ", "c">>)
OidLine == Line(<<"o", "r", "i", "g", "i", "n", "a", "l", "-", "o", "i", "d", " ", "a">>)
CommitHead ==
    Line(B_commit \o RefR) \o Line(B_committer \o format_who_when(Who))
    \o Line(B_data \o <<"1">>) \o Line(Msg)

StreamUnits ==
    {Line(B_feature_ \o B_done),
     Line(B_done),
     B_done,
     Line(B_progress \o Msg),
     CommentLine,
     Line(B_blob) \o Line(DataX),
     Line(B_blob) \o DataX,
     Line(B_blob) \o HereDocX \o Line(<<"E">>),
     Line(B_blob) \o HereDocX,
     Line(B_blob) \o Line(B_mark \o <<"1">>) \o OidLine \o Line(DataX),
     Line(B_blob) \o CommentLine \o Line(DataX),
     CommitHead \o Line(B_property \o <<"p", " ", "3", " ", "a">>)
         \o Line(<<"b">>) \o Line(B_D \o PathA),
     CommitHead \o CommentLine \o Line(B_D \o PathA),
     CommitHead \o CommentLine \o Line(B_from \o <<":", "1">>)}

\* the texts that leave the stream in the middle of a line or of a heredoc
\* come last
OpenEnded == {B_done, Line(B_blob) \o HereDocX}

Streams ==
    {Concat(units) :
        units \in {u \in UNION {[1..n -> StreamUnits] : n \in 0..MaxUnits} :
                      \A i \in 1..(Len(u) - 1) : u[i] \notin OpenEnded}}

InitStream ==
    /\ pre_process(None, None, TRUE)
    /\ cmds = <<>>
    /\ RefTracker
    /\ finished = FALSE
    /\ called = <<>>
    /\ command_iter = <<>>
    /\ handlers = {}
    /\ blob_ref_counts = EmptyDict
    /\ \E stream \in Streams :
           /\ outf = stream
           /\ parser = LineBasedParser(stream)

\* next() on the generator: a command is yielded, the iteration ends
\* (StopIteration) or the step raises
IterCommands ==
    /\ status = "running"
    /\ \E r \in {iter_commands(parser)} :
           /\ parser' = r.ps
           /\ cmds' = IF r.err = None /\ r.val # None
                      THEN Append(cmds, Val(r.val)) ELSE cmds
           /\ status' = IF r.err # None THEN Val(r.err)
                        ELSE IF r.val = None THEN "StopIteration"
                        ELSE status
    /\ UNCHANGED <<includes, excludes, squash_empty_commits, new_root, blobs,
                   squashed_commits, parents, command, keep, referenced_blobs,
                   pc, cmd_in, wrote, emitted, outf, refVars, finished,
                   called, command_iter, handlers, blob_ref_counts>>

NextStream == IterCommands

SpecStream == InitStream /\ [][NextStream]_vars

\* the bytes the coming readline calls will deliver: the lines pushed back,
\* last pushed first, and then the rest of the input
RECURSIVE Pending(_)
Pending(ps) ==
    IF ps.buffer = <<>> THEN ps.input
    ELSE ps.buffer[Len(ps.buffer)]
         \o Pending([ps EXCEPT !.buffer = AllButLast(@)])

\* the first line of bytes that is neither blank nor a comment, with what
\* follows it and whether it ends in a newline; None when there is none
RECURSIVE TopLine(_)
TopLine(bytes) ==
    IF bytes = <<>> THEN None
    ELSE IF ~Contains(bytes, LF)
    THEN Some([line |-> bytes, rest |-> <<>>, lf |-> FALSE])
    ELSE IF FirstIndex(bytes, LF) = 1 \/ bytes[1] = "#"
    THEN TopLine(DropFirst(bytes, FirstIndex(bytes, LF)))
    ELSE Some([line |-> SubSeq(bytes, 1, FirstIndex(bytes, LF) - 1),
               rest |-> DropFirst(bytes, FirstIndex(bytes, LF)),
               lf |-> TRUE])

FeatureDoneSeen ==
    \E k \in DOMAIN cmds :
        cmds[k].name = "feature" /\ cmds[k].feature_name = B_done

KeywordPositions(stream) ==
    {i \in 1..Len(stream) :
        \/ StartsWith(DropFirst(stream, i - 1), Line(B_blob))
        \/ StartsWith(DropFirst(stream, i - 1), B_commit)}
NthKeyword(stream, n) ==
    CHOOSE i \in KeywordPositions(stream) :
        Cardinality({j \in KeywordPositions(stream) : j < i}) = n - 1
ObjectsYielded ==
    Cardinality({k \in DOMAIN cmds : cmds[k].name \in {"blob", "commit"}})

\* the blob just yielded came from `blob LF data 1 LF x`; what follows its
\* payload in the stream
ExactBlobYielded ==
    /\ status = "running"
    /\ cmds # <<>>
    /\ cmds[Len(cmds)].name = "blob"
    /\ StartsWith(DropFirst(outf, NthKeyword(outf, ObjectsYielded) - 1),
                  Line(B_blob) \o DataX)
AfterPayload ==
    DropFirst(outf, NthKeyword(outf, ObjectsYielded) - 1
                    + Len(Line(B_blob) \o DataX))

\* C13 as stated: a blob read from a `data 1` section holds exactly the one
\* byte of the payload, and the next step is presented with what follows
\* the payload in the stream, less one newline if that comes first: no
\* byte is lost, added or changed.
C13_AsStated ==
    ExactBlobYielded
    => /\ cmds[Len(cmds)].data = <<"x">>
       /\ Pending(parser) = IF StartsWith(AfterPayload, <<LF>>)
                            THEN Tail(AfterPayload) ELSE AfterPayload

\* the stream opens a heredoc that no later line closes
UnterminatedHeredoc(stream) ==
    /\ FindSub(stream, HereDocX) # 0
    /\ FindSub(DropFirst(stream, FindSub(stream, HereDocX) - 1 + Len(HereDocX)),
               Line(<<"E">>)) # 1
    /\ FindSub(DropFirst(stream, FindSub(stream, HereDocX) - 1 + Len(HereDocX)),
               <<LF>> \o Line(<<"E">>)) = 0

\* C14 as stated: when the input has been read to its end inside a heredoc
\* that is never closed, the step has failed with MissingTerminator: it
\* neither returns data nor keeps reading.
C14_AsStated ==
    (UnterminatedHeredoc(outf) /\ parser.input = <<>> /\ status # "running")
    => status = "MissingTerminator"

\* the n-th blob or commit of the stream has an original-oid line behind its
\* mark; the parser has read the keyword of the n-th; the n-th one yielded
OidBlobAt(stream, n) ==
    StartsWith(DropFirst(stream, NthKeyword(stream, n) - 1),
               Line(B_blob) \o Line(B_mark \o <<"1">>) \o OidLine)
PastKeyword(n) == Len(Pending(parser)) <= Len(outf) - NthKeyword(outf, n)
NthObject(n) ==
    cmds[CHOOSE k \in DOMAIN cmds :
            /\ cmds[k].name \in {"blob", "commit"}
            /\ Cardinality({j \in 1..k :
                               cmds[j].name \in {"blob", "commit"}}) = n]

\* C15 as stated: a blob whose mark is followed by an original-oid line is
\* yielded with that oid in its original_oid field, and every blob and
\* commit read without the line has original_oid None.
C15_AsStated ==
    /\ \A n \in 1..Cardinality(KeywordPositions(outf)) :
           (OidBlobAt(outf, n) /\ PastKeyword(n))
           => /\ ObjectsYielded >= n
              /\ "original_oid" \in DOMAIN NthObject(n)
              /\ NthObject(n).original_oid = Some(<<"a">>)
    /\ \A n \in 1..ObjectsYielded :
           ~OidBlobAt(outf, n)
           => /\ "original_oid" \in DOMAIN NthObject(n)
              /\ NthObject(n).original_oid = None

\* the stream without its lines that begin with #  (in Streams no line of a
\* data section does)
RECURSIVE Uncommented(_)
Uncommented(stream) ==
    IF stream = <<>> THEN <<>>
    ELSE IF ~Contains(stream, LF)
    THEN (IF stream[1] = "#" THEN <<>> ELSE stream)
    ELSE (IF stream[1] = "#" THEN <<>>
          ELSE SubSeq(stream, 1, FirstIndex(stream, LF)))
         \o Uncommented(DropFirst(stream, FirstIndex(stream, LF)))

\* a command without its line number and the id made from it
NoLineno(c) == [f \in (DOMAIN c) \ {"lineno", "id"} |-> c[f]]

\* C16 as stated: when the iteration over a stream has ended, the commands
\* yielded and the way it ended are those of the stream without its
\* comment lines (line numbers apart).
C16_AsStated ==
    status # "running"
    => \A r \in {list_iter_commands(LineBasedParser(Uncommented(outf)), <<>>)} :
           /\ [k \in DOMAIN cmds |-> NoLineno(cmds[k])]
              = [k \in DOMAIN r.val |-> NoLineno(r.val[k])]
           /\ status = IF r.err = None THEN "StopIteration" ELSE Val(r.err)

-----------------------------------------------------------------------------
(* processor.py: ImportProcessor._process driving a processor class whose  *)
(* handlers for the kinds in handlers are overridden.  cmds keeps the      *)
(* commands pulled from command_iter, cmd_in is the one in hand, called    *)
(* the hooks and handlers called: which, for which command (0 before the   *)
(* first) and the finished flag when it returned.                          *)

MaxIter == 3

\* the handlers ImportProcessor itself defines; each raises
\* NotImplementedError
BaseHandlers ==
    {"progress", "blob", "checkpoint", "commit", "reset", "tag", "feature"}

\* a command of a kind ImportProcessor knows nothing of
AliasCommand == [name |-> "alias"]

DriveCommands == {ProgressCommand(Msg), BlobCommand(None, <<"x">>, 1), AliasCommand}

\* getattr(self.__class__, name): the attribute, or AttributeError
getattr_handler(kind) ==
    IF kind \in BaseHandlers \cup handlers THEN "found" ELSE "AttributeError"

\* try: ... except KeyError: raise errors.MissingHandler(cmd.name)
except_KeyError(raised) ==
    IF raised = "KeyError" THEN "MissingHandler" ELSE raised

\* a driver that goes on to the next command whatever the flag says
never_breaks(flag) == "loop"

\* if self.finished: break
after_post_handler(flag) == IF flag THEN "post_process" ELSE "loop"

\* a hook or handler runs: it may set the finished flag
Call(hook) ==
    /\ \E sets \in BOOLEAN : finished' = (finished \/ sets)
    /\ called' = Append(called, [hook |-> hook, k |-> Len(cmds),
                                 finished |-> finished'])

InitDrive ==
    /\ includes = None
    /\ excludes = None
    /\ squash_empty_commits = TRUE
    /\ new_root = None
    /\ blobs = EmptyDict
    /\ squashed_commits = {}
    /\ parents = EmptyDict
    /\ command = NoCommand
    /\ keep = FALSE
    /\ referenced_blobs = <<>>
    /\ pc = "start"
    /\ status = "running"
    /\ cmd_in = NoCommand
    /\ wrote = <<>>
    /\ emitted = {}
    /\ cmds = <<>>
    /\ outf = <<>>
    /\ RefTracker
    /\ parser = LineBasedParser(<<>>)
    /\ finished = FALSE
    /\ called = <<>>
    /\ command_iter \in UNION {[1..n -> DriveCommands] : n \in 0..MaxIter}
    /\ handlers \in SUBSET {"progress", "blob", "alias"}
    /\ blob_ref_counts = EmptyDict

PreProcess ==
    /\ pc = "start" /\ status = "running"
    /\ Call("pre_process")
    /\ pc' = "loop"
    /\ UNCHANGED <<includes, excludes, squash_empty_commits, new_root, blobs,
                   squashed_commits, parents, command, keep, referenced_blobs,
                   status, cmd_in, wrote, emitted, histVars, refVars, parser,
                   command_iter, handlers, blob_ref_counts>>

\* for cmd in command_iter(): ... handler = getattr(self.__class__, name)
PullCommand ==
    /\ pc = "loop" /\ status = "running"
    /\ IF command_iter = <<>>
       THEN /\ pc' = "post_process"
            /\ UNCHANGED <<status, cmd_in, cmds, command_iter>>
       ELSE /\ command_iter' = Tail(command_iter)
            /\ cmd_in' = Head(command_iter)
            /\ cmds' = Append(cmds, Head(command_iter))
            /\ \E found \in {getattr_handler(Head(command_iter).name)} :
                   IF found = "found"
                   THEN pc' = "pre_handler" /\ UNCHANGED status
                   ELSE pc' = "raised" /\ status' = except_KeyError(found)
    /\ UNCHANGED <<includes, excludes, squash_empty_commits, new_root, blobs,
                   squashed_commits, parents, command, keep, referenced_blobs,
                   wrote, emitted, outf, refVars, parser, finished, called,
                   handlers, blob_ref_counts>>

PreHandler ==
    /\ pc = "pre_handler" /\ status = "running"
    /\ Call("pre_handler")
    /\ pc' = "handler"
    /\ UNCHANGED <<includes, excludes, squash_empty_commits, new_root, blobs,
                   squashed_commits, parents, command, keep, referenced_blobs,
                   status, cmd_in, wrote, emitted, histVars, refVars, parser,
                   command_iter, handlers, blob_ref_counts>>

\* handler(self, cmd): the handler of the class, or the one of
\* ImportProcessor, which raises NotImplementedError
Handler ==
    /\ pc = "handler" /\ status = "running"
    /\ Call("handler")
    /\ IF cmd_in.name \in handlers
       THEN pc' = "post_handler" /\ UNCHANGED status
       ELSE pc' = "raised" /\ status' = "NotImplementedError"
    /\ UNCHANGED <<includes, excludes, squash_empty_commits, new_root, blobs,
                   squashed_commits, parents, command, keep, referenced_blobs,
                   cmd_in, wrote, emitted, histVars, refVars, parser,
                   command_iter, handlers, blob_ref_counts>>

PostHandler ==
    /\ pc = "post_handler" /\ status = "running"
    /\ Call("post_handler")
    /\ pc' = after_post_handler(finished')
    /\ UNCHANGED <<includes, excludes, squash_empty_commits, new_root, blobs,
                   squashed_commits, parents, command, keep, referenced_blobs,
                   status, cmd_in, wrote, emitted, histVars, refVars, parser,
                   command_iter, handlers, blob_ref_counts>>

PostProcess ==
    /\ pc = "post_process" /\ status = "running"
    /\ Call("post_process")
    /\ pc' = "done"
    /\ UNCHANGED <<includes, excludes, squash_empty_commits, new_root, blobs,
                   squashed_commits, parents, command, keep, referenced_blobs,
                   status, cmd_in, wrote, emitted, histVars, refVars, parser,
                   command_iter, handlers, blob_ref_counts>>

NextDrive ==
    PreProcess \/ PullCommand \/ PreHandler \/ Handler \/ PostHandler
    \/ PostProcess

SpecDrive == InitDrive /\ [][NextDrive]_vars

\* C17 as stated: when the command in hand is of a kind the processor has
\* no handler for, processing has failed with MissingHandler and no hook
\* or handler has been called for that command.
C17_AsStated ==
    (cmds # <<>> /\ getattr_handler(cmds[Len(cmds)].name) # "found")
    => /\ status = "MissingHandler"
       /\ \A i \in DOMAIN called : called[i].k # Len(cmds)

CallsOf(hook) == {i \in DOMAIN called : called[i].hook = hook}

\* C18: in a run no hook or handler has raised in, pre_process is called
\* once, before anything else and before a command is pulled; once a hook
\* or handler of command k has returned with the finished flag set, no
\* command after k is pulled, nothing is called for a later command, the
\* loop is not entered again, post_process is not reached before the
\* post_handler of k has run, and post_process is called once, last.
C18_EarlyStop ==
    status = "running"
    => /\ pc # "start" => called # <<>> /\ CallsOf("pre_process") = {1}
       /\ pc = "start" => called = <<>> /\ cmds = <<>>
       /\ Cardinality(CallsOf("post_process")) <= 1
       /\ pc = "done" <=> CallsOf("post_process") = {Len(called)}
       /\ \A i \in DOMAIN called :
              (called[i].finished /\ called[i].k >= 1)
              => /\ Len(cmds) = called[i].k
                 /\ \A j \in DOMAIN called : called[j].k <= called[i].k
                 /\ pc # "loop"
                 /\ pc \in {"post_process", "done"}
                    => \E j \in CallsOf("post_handler") :
                           called[j].k = called[i].k

\* the pre_handler of the first command set the flag: its handler and its
\* post_handler ran, then post_process, and the commands behind it were
\* never pulled
C18_Witness ==
    /\ pc = "done" /\ status = "running"
    /\ Len(cmds) = 1 /\ Len(command_iter) = 2
    /\ Len(called) = 5
    /\ ~called[1].finished
    /\ called[2] = [hook |-> "pre_handler", k |-> 1, finished |-> TRUE]
    /\ called[3].hook = "handler"
    /\ called[4].hook = "post_handler" /\ called[4].k = 1
    /\ called[5].hook = "post_process"

-----------------------------------------------------------------------------
(* commands.py: CommitCommand.copy.  The file commands of a commit come    *)
(* from a list, from a one-shot iterator (items: what it has still to      *)
(* give) or from a callable that returns a fresh iterator.  cmd_in is the  *)
(* commit copied, command the copy, called the kwargs of the call, outf    *)
(* and wrote the bytes of the original and of the copy written after it.   *)

FileSource(kind, items) == [kind |-> kind, items |-> items]

\* CommitCommand.iter_files: what iterating yields, and the source after it
iter_files(file_iter) ==
    [items |-> file_iter.items,
     after |-> IF file_iter.kind = "iterator" THEN FileSource("iterator", <<>>)
               ELSE file_iter]

\* list(self.file_iter): a callable is not iterable
list_of(file_iter) ==
    IF file_iter.kind = "callable" THEN Raise(file_iter, "TypeError")
    ELSE Ok(iter_files(file_iter).after, FileSource("list", file_iter.items))

\* bytes(commit), which iterates over iter_files()
commit_to_bytes(c) ==
    CommitCommand_bytes([c EXCEPT !.file_iter = iter_files(@).items])

\* fields.update(kwargs); CommitCommand(**fields)
copy_with(self, kwargs) ==
    The({CommitCommand(f.ref, f.mark, f.author, f.committer, f.message,
                       f.from_, f.merges, f.file_iter, f.lineno,
                       f.more_authors, f.properties) :
            f \in {[key \in ((DOMAIN self) \ {"id", "name"}) \cup DOMAIN kwargs |->
                       IF key \in DOMAIN kwargs THEN kwargs[key]
                       ELSE self[key]]}})

CopyCommits ==
    {CommitCommand(RefR, mark, None, Who, Msg, from_, None,
                   FileSource(kind, items), 3, <<>>, EmptyDict) :
        mark \in {None, Some(<<"b">>)}, from_ \in {None, Some(<<":", "1">>)},
        kind \in {"list", "iterator", "callable"},
        items \in {<<>>, <<FileDeleteCommand(PathA)>>,
                   <<FileDeleteCommand(PathA), FileDeleteCommand(PathB)>>}}

CopyKwargs ==
    {EmptyDict, DictPut(EmptyDict, "mark", Some(<<"c">>)),
     DictPut(EmptyDict, "mark", None),
     DictPut(DictPut(EmptyDict, "mark", None), "lineno", 7)}

InitCopy ==
    /\ pre_process(None, None, TRUE)
    /\ cmds = <<>>
    /\ outf = <<>>
    /\ RefTracker
    /\ parser = LineBasedParser(<<>>)
    /\ finished = FALSE
    /\ called = <<>>
    /\ command_iter = <<>>
    /\ handlers = {}
    /\ blob_ref_counts = EmptyDict

\* cmds keeps the commit as it was constructed
CopyConstruct ==
    /\ pc = "loop"
    /\ \E c \in CopyCommits : cmd_in' = c /\ cmds' = <<c>>
    /\ pc' = "constructed"
    /\ UNCHANGED <<includes, excludes, squash_empty_commits, new_root, blobs,
                   squashed_commits, parents, command, keep, referenced_blobs,
                   status, wrote, emitted, outf, refVars, drvVars>>

\* c.copy(**kwargs)
Copy ==
    /\ pc = "constructed"
    /\ \E kwargs \in CopyKwargs :
           /\ called' = <<kwargs>>
           /\ \E listed \in {IF cmd_in.file_iter.kind = "list"
                             THEN Ok(cmd_in.file_iter, cmd_in.file_iter)
                             ELSE list_of(cmd_in.file_iter)} :
                  IF listed.err # None
                  THEN /\ status' = Val(listed.err)
                       /\ pc' = "raised"
                       /\ UNCHANGED <<cmd_in, command>>
                  ELSE /\ cmd_in' = [cmd_in EXCEPT !.file_iter = listed.val]
                       /\ command' = copy_with(cmd_in', kwargs)
                       /\ pc' = "copied"
                       /\ UNCHANGED status
    /\ UNCHANGED <<includes, excludes, squash_empty_commits, new_root, blobs,
                   squashed_commits, parents, keep, referenced_blobs,
                   wrote, emitted, histVars, refVars, parser, finished,
                   command_iter, handlers, blob_ref_counts>>

\* bytes(c) and bytes(c2) after the copy
CopySerialize ==
    /\ pc = "copied"
    /\ outf' = commit_to_bytes(cmd_in)
    /\ wrote' = commit_to_bytes(command)
    /\ cmd_in' = [cmd_in EXCEPT !.file_iter = iter_files(@).after]
    /\ command' = [command EXCEPT !.file_iter = iter_files(@).after]
    /\ pc' = "serialized"
    /\ UNCHANGED <<includes, excludes, squash_empty_commits, new_root, blobs,
                   squashed_commits, parents, keep, referenced_blobs,
                   status, emitted, cmds, refVars, drvVars>>

NextCopy == CopyConstruct \/ Copy \/ CopySerialize

SpecCopy == InitCopy /\ [][NextCopy]_vars

\* C19 as stated: copy returns, whatever the source of the file commands;
\* the copy has the fields of the call where the call gives them and those
\* of the original elsewhere, its file commands being the ones the original
\* was constructed with, and its id made from its own mark and lineno; with
\* no kwargs its bytes are those of the original; and the original written
\* after the copy still holds all its file commands.
C19_AsStated ==
    /\ pc # "raised"
    /\ pc \in {"copied", "serialized"}
       => /\ \A key \in DOMAIN called[1] : command[key] = called[1][key]
          /\ \A key \in (DOMAIN command) \ (DOMAIN called[1] \cup {"id", "file_iter"}) :
                 command[key] = cmds[1][key]
          /\ command.file_iter.items = cmds[1].file_iter.items
          /\ command.id = MarkId(command.mark, command.lineno)
    /\ pc = "serialized"
       => /\ called[1] = EmptyDict => wrote = outf
          /\ outf = CommitCommand_bytes(
                        [cmds[1] EXCEPT !.file_iter = cmds[1].file_iter.items])

\* the 1-based number of the line of a stream that position i stands on
LineOf(stream, i) == 1 + Count(SubSeq(stream, 1, i - 1), LF)

\* C20 as stated: the lineno of each blob and commit yielded is the number
\* of the line of the stream its keyword stands on, and the id of one
\* without a mark is @ followed by that number.
C20_AsStated ==
    \A n \in 1..ObjectsYielded :
        /\ NthObject(n).lineno = LineOf(outf, NthKeyword(outf, n))
        /\ NthObject(n).mark = None
           => NthObject(n).id
              = <<"@">> \o Dec(LineOf(outf, NthKeyword(outf, n)))

-----------------------------------------------------------------------------
(* Paths written and read back: cmd_in is a Delete, Rename or Copy, outf   *)
(* what commands.py writes behind the letter of the command, cmds what     *)
(* ImportParser._path or _path_pair makes of it.                           *)

TripChars == {"a", "n", SP, QUOTE, BACKSLASH, LF}
TripPaths ==
    {q \in UNION {[1..k -> TripChars] : k \in 1..MaxPathLen} : check_path(q)}
SecondPaths == {<<"c">>, <<"c", SP, "d">>, <<QUOTE, "c">>, <<"c", LF>>}
TripCommands ==
    {FileDeleteCommand(q) : q \in TripPaths}
    \cup {FileRenameCommand(q, r) : q \in TripPaths, r \in SecondPaths}
    \cup {FileCopyCommand(q, r) : q \in TripPaths, r \in SecondPaths}

\* the paths a command was constructed with
PathsOf(fc) ==
    CASE fc.name = "filedelete" -> <<fc.path>>
      [] fc.name = "filerename" -> <<fc.old_path, fc.new_path>>
      [] fc.name = "filecopy" -> <<fc.src_path, fc.dest_path>>

InitTrip ==
    /\ pre_process(None, None, TRUE)
    /\ cmds = <<>>
    /\ outf = <<>>
    /\ RefTracker
    /\ parser = LineBasedParser(<<>>)
    /\ finished = FALSE
    /\ called = <<>>
    /\ command_iter = <<>>
    /\ handlers = {}
    /\ blob_ref_counts = EmptyDict

TripConstruct ==
    /\ pc = "loop"
    /\ \E fc \in TripCommands : cmd_in' = fc
    /\ pc' = "constructed"
    /\ UNCHANGED <<includes, excludes, squash_empty_commits, new_root, blobs,
                   squashed_commits, parents, command, keep, referenced_blobs,
                   status, wrote, emitted, histVars, refVars, drvVars>>

\* bytes(fc), and line[2:] as iter_file_commands hands it on
TripFormat ==
    /\ pc = "constructed"
    /\ outf' = DropFirst(filecommand_bytes(cmd_in), 2)
    /\ pc' = "formatted"
    /\ UNCHANGED <<includes, excludes, squash_empty_commits, new_root, blobs,
                   squashed_commits, parents, command, keep, referenced_blobs,
                   status, cmd_in, wrote, emitted, cmds, refVars, drvVars>>

TripParse ==
    /\ pc = "formatted"
    /\ \E r \in {IF cmd_in.name = "filedelete"
                 THEN The({[one EXCEPT !.val = <<@>>] :
                              one \in {parse_path(parser, outf)}})
                 ELSE parse_path_pair(parser, outf)} :
           /\ cmds' = IF r.err = None THEN r.val ELSE <<>>
           /\ status' = IF r.err = None THEN status ELSE Val(r.err)
    /\ pc' = "parsed"
    /\ UNCHANGED <<includes, excludes, squash_empty_commits, new_root, blobs,
                   squashed_commits, parents, command, keep, referenced_blobs,
                   cmd_in, wrote, emitted, outf, refVars, drvVars>>

NextTrip == TripConstruct \/ TripFormat \/ TripParse

SpecTrip == InitTrip /\ [][NextTrip]_vars

\* C21 as stated: the path of a Delete, written by format_path and read by
\* the path rule, and the two paths of a Rename or Copy, written as a pair
\* and read by the path-pair rule, come back as they were.
C21_AsStated ==
    pc = "parsed" => status = "running" /\ cmds = PathsOf(cmd_in)

(***************************************************************************)
(* The info processor (processors/info_processor.py): how it classifies    *)
(* the marked blobs of a stream by the number of times commits refer to    *)
(* them.  Here blobs is the InfoProcessor's dict of usage sets.             *)
(***************************************************************************)
MaxInfo == 4

InfoMarks == {<<"1">>, <<"2">>}
InfoIds == {MarkId(Some(mk), 0) : mk \in InfoMarks}

InfoModify(dataref) == FileModifyCommand(PathA, Mode644, Some(dataref), None)

InfoFileLists ==
    {<<>>, <<InfoModify(ShaRef)>>}
    \cup {<<InfoModify(id)>> : id \in InfoIds}
    \cup {<<InfoModify(<<":", "1">>), InfoModify(id)>> : id \in InfoIds}

InfoBlobs(lineno) ==
    {BlobCommand(Some(mk), <<"x">>, lineno) : mk \in InfoMarks}
    \cup {BlobCommand(None, <<"x">>, lineno)}

InfoCommits(lineno) ==
    {ParsedCommit(None, None, <<>>, files, lineno) : files \in InfoFileLists}

\* InfoProcessor.pre_process: the four usage sets are empty and no mark is
\* counted
InitInfo ==
    /\ includes = None
    /\ excludes = None
    /\ squash_empty_commits = TRUE
    /\ new_root = None
    /\ blobs = [new |-> {}, used |-> {}, unknown |-> {}, unmarked |-> {}]
    /\ squashed_commits = {}
    /\ parents = EmptyDict
    /\ command = NoCommand
    /\ keep = FALSE
    /\ referenced_blobs = <<>>
    /\ pc = "loop"
    /\ status = "running"
    /\ cmd_in = NoCommand
    /\ wrote = <<>>
    /\ emitted = {}
    /\ cmds = <<>>
    /\ outf = <<>>
    /\ RefTracker
    /\ parser = LineBasedParser(<<>>)
    /\ finished = FALSE
    /\ called = <<>>
    /\ command_iter = <<>>
    /\ handlers = {}
    /\ blob_ref_counts = EmptyDict

\* InfoProcessor._track_blob on the pair st of the usage sets and the counts
track_blob(st, mark) ==
    IF mark \in DOMAIN st.blob_ref_counts
    THEN [st EXCEPT !.blob_ref_counts[mark] = @ + 1]
    ELSE IF mark \in st.blobs.used
    THEN [blobs |-> [st.blobs EXCEPT !.used = @ \ {mark}],
          blob_ref_counts |-> DictPut(st.blob_ref_counts, mark, 2)]
    ELSE IF mark \in st.blobs.new
    THEN [st EXCEPT !.blobs.used = @ \cup {mark},
                    !.blobs.new = @ \ {mark}]
    ELSE [st EXCEPT !.blobs.unknown = @ \cup {mark}]

\* the loop of commit_handler over cmd.iter_files(), as far as it touches the
\* usage sets: a Modify whose dataref starts with a colon is tracked
RECURSIVE track_files(_, _)
track_files(st, files) ==
    IF files = <<>> THEN st
    ELSE LET fc == Head(files)
             tracked == /\ fc.name = "filemodify"
                        /\ fc.dataref # None
                        /\ Val(fc.dataref) # <<>>
                        /\ Head(Val(fc.dataref)) = ":"
         IN  track_files(IF tracked THEN track_blob(st, Val(fc.dataref))
                         ELSE st,
                         Tail(files))

\* InfoProcessor.blob_handler
InfoBlob ==
    /\ status = "running"
    /\ Len(cmds) < MaxInfo
    /\ \E cmd \in InfoBlobs(Len(cmds) + 1) :
           /\ blobs' = IF cmd.mark = None
                       THEN [blobs EXCEPT !.unmarked = @ \cup {cmd.id}]
                       ELSE [blobs EXCEPT !.new = @ \cup {cmd.id},
                                          !.used = @ \ {cmd.id}]
           /\ cmd_in' = cmd
           /\ cmds' = Append(cmds, cmd)
    /\ UNCHANGED <<includes, excludes, squash_empty_commits, new_root,
                   squashed_commits, parents, command, keep, referenced_blobs,
                   pc, status, wrote, emitted, outf, refVars, parser,
                   finished, called, command_iter, handlers, blob_ref_counts>>

\* InfoProcessor.commit_handler: the blob references of the file commands,
\* then the heads (the counters of the statistics, which no classification
\* reads, are left out)
InfoCommit ==
    /\ status = "running"
    /\ Len(cmds) < MaxInfo
    /\ \E cmd \in InfoCommits(Len(cmds) + 1) :
           /\ \E st \in {track_files([blobs |-> blobs,
                                      blob_ref_counts |-> blob_ref_counts],
                                     cmd.file_iter)} :
                  /\ blobs' = st.blobs
                  /\ blob_ref_counts' = st.blob_ref_counts
           /\ track_heads(cmd)
           /\ cmd_in' = cmd
           /\ cmds' = Append(cmds, cmd)
    /\ UNCHANGED <<includes, excludes, squash_empty_commits, new_root,
                   squashed_commits, parents, command, keep, referenced_blobs,
                   pc, wrote, emitted, outf, parser, finished, called,
                   command_iter, handlers>>

NextInfo == InfoBlob \/ InfoCommit

SpecInfo == InitInfo /\ [][NextInfo]_vars

\* the place in s of the last Blob command that defines the mark id, 0 when
\* there is none
LastDefined(s, id) ==
    LET at == {i \in 1..Len(s) : /\ s[i].name = "blob"
                                 /\ s[i].mark # None
                                 /\ s[i].id = id}
    IN  IF at = {} THEN 0 ELSE CHOOSE i \in at : \A j \in at : j <= i

\* the Modify references to id made by the commits of s after place i
RefsAfter(s, id, i) ==
    {jk \in (i + 1 .. Len(s)) \X (1..2) :
        /\ s[jk[1]].name = "commit"
        /\ jk[2] <= Len(s[jk[1]].file_iter)
        /\ s[jk[1]].file_iter[jk[2]].name = "filemodify"
        /\ s[jk[1]].file_iter[jk[2]].dataref = Some(id)}

\* the number of Modify references to id since it was last defined
RefsSinceDefined(s, id) == Cardinality(RefsAfter(s, id, LastDefined(s, id)))

\* id was referenced at a place of s before which no blob defined it
ReferencedUndefined(s, id) ==
    \E jk \in RefsAfter(s, id, 0) :
        LastDefined(SubSeq(s, 1, jk[1] - 1), id) = 0

\* C22 as stated: every marked blob is in exactly one of new, used and the
\* counted marks, chosen by the number n of Modify references to its mark
\* since it was last defined (new for 0, used for 1, counted with value n
\* from 2 on); the three are pairwise disjoint; and a mark referenced before
\* any blob defined it is in unknown.
C22_AsStated ==
    /\ \A id \in InfoIds :
           /\ LastDefined(cmds, id) # 0 =>
                  LET n == RefsSinceDefined(cmds, id)
                  IN  /\ id \in blobs.new <=> n = 0
                      /\ id \in blobs.used <=> n = 1
                      /\ id \in DOMAIN blob_ref_counts <=> n >= 2
                      /\ n >= 2 => blob_ref_counts[id] = n
           /\ ReferencedUndefined(cmds, id) => id \in blobs.unknown
    /\ blobs.new \cap blobs.used = {}
    /\ blobs.new \cap DOMAIN blob_ref_counts = {}
    /\ blobs.used \cap DOMAIN blob_ref_counts = {}


\* the ids of the marked commits the filter has processed and not written
\* (under Spec a mark is used once, and commit_handler records the parents
\* of every marked commit it processes)
Declined == (DOMAIN parents) \ emitted

\* the commits a written commit, reset or tag refers to
RefsOut(c) ==
    (IF c.from_ = None THEN {} ELSE {Val(c.from_)})
    \cup (IF c.name = "commit" /\ c.merges # None
          THEN {Val(c.merges)[i] : i \in 1..Len(Val(c.merges))} ELSE {})

\* C23 as stated: the from_ and the merges of every commit, reset and tag the
\* filter writes never name a commit processed earlier and not written, and
\* every commit the filter declines to write is in squashed_commits.
C23_AsStated ==
    /\ (pc = "handled" /\ WroteCommand
        /\ cmd_in.name \in {"commit", "reset", "tag"})
       => RefsOut(Written) \cap Declined = {}
    /\ Declined \subseteq squashed_commits


\* C24 as stated: every call of _find_interesting_parent terminates, whatever
\* parents and squashed_commits the commands before it have left (the walk
\* is a loop over commit_ref alone, so it fails to terminate exactly when it
\* comes back to a squashed commit it has already left, which the step that
\* makes the call records as status "hang").
C24_AsStated == status # "hang"


\* the buffered blobs that the Modify commands of filecmds name by mark,
\* directories left out, in the order of the commands
RECURSIVE BufferedBlobsOf(_)
BufferedBlobsOf(filecmds) ==
    IF filecmds = <<>> THEN <<>>
    ELSE LET fc == Head(filecmds)
         IN  (IF /\ fc.name = "filemodify"
                 /\ fc.dataref # None
                 /\ ~S_ISDIR(fc.mode)
                 /\ Val(fc.dataref) \in DOMAIN blobs
              THEN <<blobs[Val(fc.dataref)]>> ELSE <<>>)
             \o BufferedBlobsOf(Tail(filecmds))

\* C25 as stated: a kept commit is always written, after the buffered blobs
\* its Modify commands name by mark (directories left out) and no other
\* blob; a Modify with any other dataref writes no blob and does not make
\* the filter fail.
C25_AsStated ==
    (pc = "handled" /\ cmd_in.name = "commit" /\ keep)
    => /\ status = "running"
       /\ wrote = BufferedBlobsOf(command.file_iter) \o <<command>>


\* the paths a file command carries
PathsIn(fc) ==
    CASE fc.name \in {"filemodify", "filedelete"} -> {fc.path}
      [] fc.name = "filerename" -> {fc.old_path, fc.new_path}
      [] fc.name = "filecopy" -> {fc.src_path, fc.dest_path}
      [] OTHER -> {}

\* C26 as stated: whatever the include and exclude paths, a commit whose file
\* commands carry legal paths is handled without failure, and every path of
\* every file command the filter writes is non-empty and does not begin with
\* a slash.
C26_AsStated ==
    (pc = "handled" /\ cmd_in.name = "commit")
    => /\ status = "running"
       /\ \A i \in 1..Len(wrote) :
              wrote[i].name = "commit"
              => \A k \in 1..Len(wrote[i].file_iter) :
                     \A q \in PathsIn(wrote[i].file_iter[k]) : check_path(q)


\* C27: while a stream is parsed the push-back buffer never holds more than
\* one line; read_bytes, read_until and the read of the optional LF after
\* exact-length data find the buffer empty; and the line next_line returns
\* after a push_line(l) is l, at the lineno l was first returned at.  (The
\* input is read front to back, so with this every line of it reaches the
\* grammar once and in its order.)
C27_PushBack ==
    /\ Len(parser.buffer) <= 1
    /\ parser.longest_buffer <= 1
    /\ parser.direct_on_empty
    /\ parser.popped_as_pushed

\* two blobs with exact-length data have been yielded: each data line was
\* pushed back by the mark rule and read again, and after the data of the
\* first the line of the second was read directly and pushed back
C27_Witness ==
    /\ Len(cmds) >= 2
    /\ cmds[1].name = "blob" /\ cmds[1].data = <<"x">>
    /\ cmds[2].name = "blob" /\ cmds[2].data = <<"x">>
    /\ cmds[2].lineno = 4
    /\ parser.longest_buffer = 1
    /\ status = "running"

(***************************************************************************)
(* Streams whose blob or commit stops short of a required section: the     *)
(* command keyword, the sections in front of the required one, and then    *)
(* the required section, another line, or the end of the input.            *)
(***************************************************************************)
CommitterLine == Line(B_committer \o format_who_when(Who))

\* what stands before the required section, and the section required next
SectionHeads ==
    {[text |-> Line(B_blob), needs |-> "data"],
     [text |-> Line(B_blob) \o Line(B_mark \o <<"1">>), needs |-> "data"],
     [text |-> Line(B_commit \o RefR), needs |-> "committer"],
     [text |-> Line(B_commit \o RefR) \o Line(B_mark \o <<"1">>),
      needs |-> "committer"],
     [text |-> Line(B_commit \o RefR) \o CommitterLine, needs |-> "data"]}

\* what stands where the section is required
SectionRests ==
    {[text |-> <<>>, has |-> "nothing"],
     [text |-> Line(B_progress \o Msg), has |-> "progress"],
     [text |-> Line(DataX), has |-> "data"],
     [text |-> CommitterLine \o Line(DataX), has |-> "committer"]}

SectionCases ==
    [before : {<<>>, Line(B_progress \o Msg)},
     head : SectionHeads,
     rest : SectionRests,
     after : {<<>>, Line(B_progress \o Msg)}]

CaseText(c) ==
    c.before \o c.head.text \o c.rest.text
    \o (IF c.rest.has = "nothing" THEN <<>> ELSE c.after)

InitSection ==
    /\ pre_process(None, None, TRUE)
    /\ cmds = <<>>
    /\ RefTracker
    /\ finished = FALSE
    /\ called = <<>>
    /\ command_iter = <<>>
    /\ handlers = {}
    /\ blob_ref_counts = EmptyDict
    /\ \E c \in SectionCases :
           /\ outf = CaseText(c)
           /\ parser = LineBasedParser(CaseText(c))

NextSection == IterCommands

SpecSection == InitSection /\ [][NextSection]_vars

\* the cases the stream being parsed can have been built from
CasesOfStream == {c \in SectionCases : CaseText(c) = outf}

\* the number of lines of a text that ends with a newline
LinesIn(text) == Count(text, LF)

\* C28 as stated: when a blob lacks its data section, or a commit its
\* committer or its data section, because another line stands there or
\* because the input ends, the step fails with MissingSection at the line
\* that was read instead, and neither that command nor any later one is
\* yielded.
C28_AsStated ==
    \A c \in CasesOfStream :
        c.rest.has # c.head.needs
        => /\ Len(cmds) <= (IF c.before = <<>> THEN 0 ELSE 1)
           /\ status # "StopIteration"
           /\ (status # "running"
               => /\ status = "MissingSection"
                  /\ parser.lineno
                         = LinesIn(c.before) + LinesIn(c.head.text) + 1)


(***************************************************************************)
(* Streams of commits and tags whose authorship lines carry dates of       *)
(* different forms.                                                        *)
(***************************************************************************)
MaxDated == 2

\* a date as it is written, and the timestamp and offset it stands for
DateForms ==
    {[text |-> <<"5", " ", "+", "0", "0", "0", "0">>, when |-> <<5, 0>>],
     [text |-> <<"7", " ", "+", "0", "1", "0", "0">>, when |-> <<7, 3600>>],
     [text |-> <<"9", " ", "-", "0", "2", "3", "0">>, when |-> <<9, 0 - 9000>>],
     [text |-> B_now, when |-> <<TimeNow, 0>>]}

WhoLine(section, date) ==
    Line(section \o <<"J", " ", "<", "e", ">", " ">> \o date.text)

\* a commit with a committer, a commit with an author and a committer, or
\* a tag with a tagger
DatedUnits ==
    {[kind |-> "committer", dates |-> <<d>>] : d \in DateForms}
    \cup {[kind |-> "author", dates |-> <<d, e>>] :
             d \in DateForms, e \in DateForms}
    \cup {[kind |-> "tagger", dates |-> <<d>>] : d \in DateForms}

UnitText(u) ==
    CASE u.kind = "committer" ->
             Line(B_commit \o RefR) \o WhoLine(B_committer, u.dates[1])
             \o Line(B_data \o <<"1">>) \o Line(Msg)
      [] u.kind = "author" ->
             Line(B_commit \o RefR) \o WhoLine(B_author, u.dates[1])
             \o WhoLine(B_committer, u.dates[2])
             \o Line(B_data \o <<"1">>) \o Line(Msg)
      [] u.kind = "tagger" ->
             Line(B_tag \o TagV) \o Line(B_from \o <<":", "1">>)
             \o WhoLine(B_tagger, u.dates[1])
             \o Line(B_data \o <<"1">>) \o Line(Msg)

DatedStreams == UNION {[1..n -> DatedUnits] : n \in 1..MaxDated}

RECURSIVE StreamText(_)
StreamText(s) ==
    IF s = <<>> THEN <<>> ELSE UnitText(Head(s)) \o StreamText(Tail(s))

InitDates ==
    /\ pre_process(None, None, TRUE)
    /\ cmds = <<>>
    /\ RefTracker
    /\ finished = FALSE
    /\ called = <<>>
    /\ command_iter = <<>>
    /\ handlers = {}
    /\ blob_ref_counts = EmptyDict
    /\ \E s \in DatedStreams :
           /\ outf = StreamText(s)
           /\ parser = LineBasedParser(StreamText(s))

NextDates == IterCommands

SpecDates == InitDates /\ [][NextDates]_vars

\* the timestamps and offsets of the authorship lines of a command, in the
\* order of the lines
WhensOf(c) ==
    LET when(a) == <<a[3], a[4]>>
    IN  IF c.name = "tag" THEN <<when(Val(c.tagger))>>
        ELSE IF c.author # None
        THEN <<when(Val(c.author)), when(c.committer)>>
        ELSE <<when(c.committer)>>

\* C29 as stated: every authorship line `NAME <EMAIL> TS +-HHMM` parses to
\* TS and the offset in seconds, and every one whose date is `now` to the
\* current time and offset 0, whichever form the dates of the earlier
\* authorship lines of the stream had.
C29_AsStated ==
    \A s \in {x \in DatedStreams : StreamText(x) = outf} :
        /\ status \in {"running", "StopIteration"}
        /\ \A i \in 1..Len(cmds) :
               WhensOf(cmds[i])
                   = [k \in 1..Len(s[i].dates) |-> s[i].dates[k].when]


(***************************************************************************)
(* helpers.is_inside applied to a pair of byte strings: cmd_in holds the   *)
(* pair and keep the value returned.                                       *)
(***************************************************************************)
InitInside ==
    /\ includes = None
    /\ excludes = None
    /\ squash_empty_commits = TRUE
    /\ new_root = None
    /\ blobs = EmptyDict
    /\ squashed_commits = {}
    /\ parents = EmptyDict
    /\ command = NoCommand
    /\ keep = FALSE
    /\ referenced_blobs = <<>>
    /\ pc = "call"
    /\ status = "running"
    /\ \E d \in PathStrings(MaxPathLen), f \in PathStrings(MaxPathLen) :
           cmd_in = [name |-> "is_inside", directory |-> d, fname |-> f]
    /\ wrote = <<>>
    /\ emitted = {}
    /\ cmds = <<>>
    /\ outf = <<>>
    /\ RefTracker
    /\ parser = LineBasedParser(<<>>)
    /\ finished = FALSE
    /\ called = <<>>
    /\ command_iter = <<>>
    /\ handlers = {}
    /\ blob_ref_counts = EmptyDict

IsInside ==
    /\ pc = "call"
    /\ keep' = is_inside(cmd_in.directory, cmd_in.fname)
    /\ pc' = "returned"
    /\ UNCHANGED <<includes, excludes, squash_empty_commits, new_root, blobs,
                   squashed_commits, parents, command, referenced_blobs,
                   status, cmd_in, wrote, emitted, histVars, refVars, drvVars>>

NextInside == IsInside

SpecInside == InitInside /\ [][NextInside]_vars

\* C30 as stated: is_inside(dir, f) is true exactly when dir is empty, dir
\* equals f, or f starts with dir followed by a slash, for every pair, a dir
\* with a trailing slash included.
C30_AsStated ==
    pc = "returned"
    => (keep <=> \/ cmd_in.directory = <<>>
                 \/ cmd_in.directory = cmd_in.fname
                 \/ StartsWith(cmd_in.fname, cmd_in.directory \o <<"/">>))

\* C30 (amended): is_inside(dir, f) is true exactly when dir is empty, dir
\* equals f, or f starts with dir and the slash that closes the directory
\* name is there: as the last byte of dir, or else as the byte of f right
\* behind dir.
C30_IsInside ==
    pc = "returned"
    => LET d == cmd_in.directory
           f == cmd_in.fname
       IN  keep <=> \/ d = <<>>
                    \/ d = f
                    \/ /\ d # <<>>
                       /\ StartsWith(f, d)
                       /\ \/ d[Len(d)] = "/"
                          \/ Len(f) > Len(d) /\ f[Len(d) + 1] = "/"

\* the file a/a is inside the directory written a/
C30_Witness ==
    /\ pc = "returned"
    /\ cmd_in.directory = <<"a", "/">>
    /\ cmd_in.fname = <<"a", "/", "a">>
    /\ keep


====
